---- MODULE Spec2Model ----
(***************************************************************************)
(* A model of the parabox-leveler level document engine: the value model   *)
(* (types/level.ts), the text codec (lib/parser, lib/serializer) and the   *)
(* editor store with its clipboard and undo/redo history (store/levelStore)*)
(*                                                                         *)
(* Conventions of the model                                                *)
(*  - A JavaScript array is a sequence; a JavaScript index i is position   *)
(*    i + 1 of the sequence.  Paths hold JavaScript (0-based) indices.     *)
(*  - A string that the text format carries (the level text, a token, a *)
(*    floorType, an info text, a comment) is a sequence of symbols.  A     *)
(*    symbol is one character ("7", " ", "(") or one word that holds no    *)
(*    white space and no parenthesis ("Block", "version").                 *)
(*  - null is the record NULL.  An optional field (infoText, the header's  *)
(*    optional keys) is <<>> when undefined and <<v>> when set to v.       *)
(*  - Numbers are integers.  hue, sat, val and zoomfactor are held in      *)
(*    hundredths (0.6 is 60), every other number in units.  NaN and the    *)
(*    null that JSON writes for NaN are the two numbers NaN and JsonNull.  *)
(*  - state.selectedObject is a reference into the live tree: Live(p)      *)
(*    names the object at path p from the root, Detached(o) an object      *)
(*    that is no longer part of the tree.                                  *)
(***************************************************************************)
EXTENDS Integers, Sequences, FiniteSets, TLC

(***************************************************************************)
(* Bounds of the model                                                     *)
(***************************************************************************)
\* Block ids the handlers are called with: 0..MaxBlockId.
MaxBlockId == 3
\* Cell coordinates the handlers are called with: 0..MaxCoord.
MaxCoord == 1
\* History-recording handlers run while the two stacks together hold fewer
\* snapshots than this.
MaxHist == 1

\* saveToHistory keeps this many snapshots.
HistoryLimit == 50

NULL == [type |-> "null"]
\* null where a path is expected (a path holds no negative index).
NoPath == <<0 - 1>>
NaN == 0 - 1000000
JsonNull == 0 - 1000001

Coords == 0 .. MaxCoord
\* The cells the handlers are called with.
Cells == {<<c, c>> : c \in Coords}

(***************************************************************************)
(* Sequence helpers                                                        *)
(***************************************************************************)
Last(seq) == seq[Len(seq)]

IsPrefix(p, q) == Len(p) <= Len(q) /\ SubSeq(q, 1, Len(p)) = p

\* Array.prototype.splice(i, 1) with a 0-based index i >= 0.
Splice1(seq, i) ==
    IF i + 1 > Len(seq) THEN seq
    ELSE SubSeq(seq, 1, i) \o SubSeq(seq, i + 2, Len(seq))

\* Array.prototype.findIndex: the first 0-based index whose element
\* satisfies Test, or -1.
FindIndex(seq, Test(_)) ==
    IF \E i \in DOMAIN seq : Test(seq[i])
    THEN (CHOOSE i \in DOMAIN seq :
             Test(seq[i]) /\ \A j \in 1 .. (i - 1) : ~Test(seq[j])) - 1
    ELSE 0 - 1

\* JavaScript ===  on numbers: NaN equals nothing.
StrictEq(a, b) == a # NaN /\ a = b

\* JavaScript + on numbers.
JsAdd(a, b) ==
    IF a = NaN \/ b = NaN THEN NaN
    ELSE (IF a = JsonNull THEN 0 ELSE a) + (IF b = JsonNull THEN 0 ELSE b)

\* Math.max
JsMax(a, b) ==
    IF a = NaN \/ b = NaN THEN NaN
    ELSE LET x == IF a = JsonNull THEN 0 ELSE a
             y == IF b = JsonNull THEN 0 ELSE b
         IN IF x >= y THEN x ELSE y

(***************************************************************************)
(* Value model: types/level.ts                                             *)
(***************************************************************************)
createBlockWith(id, x, y, width, height, hue, sat, val, fillwithwalls, player, possessable) ==
    [type |-> "Block", x |-> x, y |-> y, id |-> id,
     width |-> width, height |-> height,
     hue |-> hue, sat |-> sat, val |-> val, zoomfactor |-> 100,
     fillwithwalls |-> fillwithwalls, player |-> player,
     possessable |-> possessable, playerorder |-> 0, fliph |-> 0,
     floatinspace |-> 0, specialeffect |-> 0, children |-> <<>>]

\* createBlock(id, x, y, width, height, options) with the default colour;
\* options only ever overrides fillwithwalls here.
createBlock(id, x, y, width, height, fillwithwalls) ==
    createBlockWith(id, x, y, width, height, 60, 80, 100, fillwithwalls, 0, 0)

createPlayerBlock(id, x, y) ==
    createBlockWith(id, x, y, 1, 1, 90, 100, 70, 1, 1, 1)

createBox(id, x, y) ==
    createBlockWith(id, x, y, 3, 3, 12, 70, 85, 1, 0, 0)

createWall(x, y) ==
    [type |-> "Wall", x |-> x, y |-> y,
     player |-> 0, possessable |-> 0, playerorder |-> 0]

\* infoText is  <<>>  (undefined) or  <<text>>.
createFloor(x, y, floorType, infoText) ==
    [type |-> "Floor", x |-> x, y |-> y,
     floorType |-> floorType, infoText |-> infoText]

createRef(x, y, targetId, isExit) ==
    [type |-> "Ref", x |-> x, y |-> y, id |-> targetId,
     exitblock |-> IF isExit THEN 1 ELSE 0,
     infexit |-> 0, infexitnum |-> 0, infenter |-> 0, infenternum |-> 0,
     infenterid |-> 0 - 1, player |-> 0, possessable |-> 0,
     playerorder |-> 0, fliph |-> 0, floatinspace |-> 0,
     specialeffect |-> 0]

defaultHeader ==
    [version |-> 4, comment |-> <<>>, shed |-> <<>>, innerPush |-> <<>>,
     drawStyle |-> <<>>, attemptOrder |-> <<>>, customLevelMusic |-> <<>>,
     customLevelPalette |-> <<>>]

createDefaultLevel ==
    LET root == createBlock(0, 0 - 1, 0 - 1, 5, 5, 0)
        player == createPlayerBlock(1, 1, 1)
        goal == createFloor(3, 3, <<"PlayerButton">>, <<>>)
    IN [header |-> defaultHeader,
        root |-> [root EXCEPT !.children = <<player, goal>>]]

(***************************************************************************)
(* Tree helpers.  A path is a sequence of 0-based child indices.           *)
(***************************************************************************)
IsBlock(obj) == obj.type = "Block"

RECURSIVE ObjAt(_, _)
\* The object reached from obj along path, or NULL.
ObjAt(obj, path) ==
    IF path = <<>> THEN obj
    ELSE IF obj.type = "Block" /\ Head(path) + 1 \in DOMAIN obj.children
         THEN ObjAt(obj.children[Head(path) + 1], Tail(path))
         ELSE NULL

RECURSIVE ReplaceAt(_, _, _)
\* obj with the object at path (which resolves) replaced by new.
ReplaceAt(obj, path, new) ==
    IF path = <<>> THEN new
    ELSE [obj EXCEPT !.children[Head(path) + 1] =
              ReplaceAt(obj.children[Head(path) + 1], Tail(path), new)]

RECURSIVE ObjPaths(_, _)
RECURSIVE ChildPaths(_, _, _)
\* The paths of obj and of everything below it, in pre-order.
ObjPaths(obj, path) ==
    IF obj.type = "Block" THEN <<path>> \o ChildPaths(obj, path, 1)
    ELSE <<path>>

ChildPaths(block, path, i) ==
    IF i > Len(block.children) THEN <<>>
    ELSE ObjPaths(block.children[i], Append(path, i - 1))
            \o ChildPaths(block, path, i + 1)

\* Pre-order paths of the Blocks of the tree below root (root included).
BlockPaths(root) ==
    SelectSeq(ObjPaths(root, <<>>), LAMBDA p : ObjAt(root, p).type = "Block")

RefPaths(root) ==
    SelectSeq(ObjPaths(root, <<>>), LAMBDA p : ObjAt(root, p).type = "Ref")

\* The ids of the Blocks of the tree, in pre-order (with repetitions).
BlockIdSeq(root) ==
    LET ps == BlockPaths(root)
    IN [i \in DOMAIN ps |-> ObjAt(root, ps[i]).id]

BlockIds(root) == {BlockIdSeq(root)[i] : i \in DOMAIN BlockIdSeq(root)}

CountObjects(root) == Len(ObjPaths(root, <<>>))

RECURSIVE MaxIdFrom(_, _, _)
MaxIdFrom(ids, i, acc) ==
    IF i > Len(ids) THEN acc ELSE MaxIdFrom(ids, i + 1, JsMax(acc, ids[i]))

\* getNextBlockId without its final + 1: the largest Block id itself.
getNextBlockIdNoIncrement(level) == MaxIdFrom(BlockIdSeq(level.root), 1, 0)

\* getNextBlockId that leaves one id out: 2 + the largest Block id.
getNextBlockIdSkipOne(level) ==
    JsAdd(MaxIdFrom(BlockIdSeq(level.root), 1, 0), 2)

\* getNextBlockId: 1 + the largest Block id, the maximum starting from 0.
getNextBlockId(level) == JsAdd(MaxIdFrom(BlockIdSeq(level.root), 1, 0), 1)

\* Path of the first Block (pre-order) whose id is id, or NoPath.
PathOfBlock(root, id) ==
    LET ps == SelectSeq(BlockPaths(root),
                        LAMBDA p : StrictEq(ObjAt(root, p).id, id))
    IN IF ps = <<>> THEN NoPath ELSE Head(ps)

\* findBlockById: the Block itself, or NULL.
findBlockById(level, id) ==
    LET p == PathOfBlock(level.root, id)
    IN IF p = NoPath THEN NULL ELSE ObjAt(level.root, p)

(***************************************************************************)
(* JSON.parse(JSON.stringify(v)): a deep copy in which NaN becomes null    *)
(* and keys holding undefined are dropped (the model holds undefined as    *)
(* <<>>, which reads the same as a missing key).                           *)
(***************************************************************************)
NonNumberKeys == {"type", "floorType", "infoText", "children"}

JsonNumber(v) == IF v = NaN THEN JsonNull ELSE v

RECURSIVE JsonCloneObject(_)
JsonCloneObject(obj) ==
    [k \in DOMAIN obj |->
        IF k = "children"
        THEN [i \in DOMAIN obj.children |-> JsonCloneObject(obj.children[i])]
        ELSE IF k \in NonNumberKeys THEN obj[k]
        ELSE JsonNumber(obj[k])]

JsonCloneLevel(level) ==
    [header |-> [level.header EXCEPT !.version = JsonNumber(@),
                     !.customLevelMusic =
                         IF @ = <<>> THEN @ ELSE <<JsonNumber(@[1])>>,
                     !.customLevelPalette =
                         IF @ = <<>> THEN @ ELSE <<JsonNumber(@[1])>>],
     root |-> JsonCloneObject(level.root)]

(***************************************************************************)
(* Strings and numbers of the text format                                  *)
(***************************************************************************)
Digits == <<"0", "1", "2", "3", "4", "5", "6", "7", "8", "9">>

IsDigit(c) == \E d \in DOMAIN Digits : Digits[d] = c
DigitValue(c) == (CHOOSE d \in DOMAIN Digits : Digits[d] = c) - 1

\* White space as the regular expression \s and String.prototype.trim see it.
IsSpace(c) == c \in {" ", "\t", "\n"}

RECURSIVE NatToString(_)
NatToString(n) ==
    IF n < 10 THEN <<Digits[n + 1]>>
    ELSE NatToString(n \div 10) \o <<Digits[(n % 10) + 1]>>

\* String(n) for a number held in units.
NumberToString(n) ==
    IF n = NaN THEN <<"NaN">>
    ELSE IF n = JsonNull THEN <<"null">>
    ELSE IF n < 0 THEN <<"-">> \o NatToString(0 - n)
    ELSE NatToString(n)

\* String(n) for a number held in hundredths: 60 is 0.6, 100 is 1.
DecimalToString(h) ==
    IF h = NaN THEN <<"NaN">>
    ELSE IF h = JsonNull THEN <<"null">>
    ELSE LET a == IF h < 0 THEN 0 - h ELSE h
             frac == a % 100
             digits == NatToString(a \div 100) \o
                 (IF frac = 0 THEN <<>>
                  ELSE IF frac % 10 = 0 THEN <<".", Digits[(frac \div 10) + 1]>>
                  ELSE <<".", Digits[(frac \div 10) + 1],
                         Digits[(frac % 10) + 1]>>)
         IN IF h < 0 THEN <<"-">> \o digits ELSE digits

\* An element of an array under Array.prototype.join: null and undefined
\* give the empty string.
JoinNumber(n) == IF n = JsonNull THEN <<>> ELSE NumberToString(n)
JoinDecimal(h) == IF h = JsonNull THEN <<>> ELSE DecimalToString(h)

RECURSIVE Join(_, _)
\* Array.prototype.join(sep) on an array of strings.
Join(strs, sep) ==
    IF strs = <<>> THEN <<>>
    ELSE IF Len(strs) = 1 THEN strs[1]
    ELSE strs[1] \o sep \o Join(Tail(strs), sep)

RECURSIVE Split(_, _)
\* String.prototype.split(sep) for a one-symbol separator.
Split(str, sep) ==
    IF \E i \in DOMAIN str : str[i] = sep
    THEN LET i == CHOOSE k \in DOMAIN str :
                      str[k] = sep /\ \A j \in 1 .. (k - 1) : str[j] # sep
         IN <<SubSeq(str, 1, i - 1)>> \o
                Split(SubSeq(str, i + 1, Len(str)), sep)
    ELSE <<str>>

RECURSIVE TrimStart(_)
TrimStart(str) ==
    IF str # <<>> /\ IsSpace(Head(str)) THEN TrimStart(Tail(str)) ELSE str

RECURSIVE TrimEnd(_)
TrimEnd(str) ==
    IF str # <<>> /\ IsSpace(Last(str))
    THEN TrimEnd(SubSeq(str, 1, Len(str) - 1)) ELSE str

\* String.prototype.trim
Trim(str) == TrimEnd(TrimStart(str))

RECURSIVE SplitSpaces(_, _, _)
\* String.prototype.split(/\s+/): cur is the piece being read, i the
\* position read next.
SplitSpaces(str, i, cur) ==
    IF i > Len(str) THEN <<cur>>
    ELSE IF IsSpace(str[i])
    THEN IF i > 1 /\ IsSpace(str[i - 1]) THEN SplitSpaces(str, i + 1, cur)
         ELSE <<cur>> \o SplitSpaces(str, i + 1, <<>>)
    ELSE SplitSpaces(str, i + 1, Append(cur, str[i]))

\* parts[i] for a JavaScript index i; undefined reads as the empty string,
\* which parseInt and parseFloat turn into NaN just the same.
Part(parts, i) == IF i + 1 \in DOMAIN parts THEN parts[i + 1] ELSE <<>>

RECURSIVE DigitRun(_, _)
\* The number of digits str holds from position i on.
DigitRun(str, i) ==
    IF i <= Len(str) /\ IsDigit(str[i]) THEN 1 + DigitRun(str, i + 1) ELSE 0

RECURSIVE DigitsValue(_, _, _, _)
\* The value of the n digits of str that start at position i.
DigitsValue(str, i, n, acc) ==
    IF n = 0 THEN acc
    ELSE DigitsValue(str, i + 1, n - 1, (acc * 10) + DigitValue(str[i]))

\* The length of the sign str starts with, and whether it is a minus.
SignLength(str) == IF str # <<>> /\ Head(str) \in {"-", "+"} THEN 1 ELSE 0
Negative(str) == str # <<>> /\ Head(str) = "-"
Signed(str, v) == IF Negative(str) THEN 0 - v ELSE v

\* The number of decimals str holds at position p: the digits that follow
\* a point there.
FractionRun(str, p) ==
    IF p <= Len(str) /\ str[p] = "." THEN DigitRun(str, p + 1) ELSE 0

\* The integer str holds: n digits from position first on.
IntegerOf(str, first, n) ==
    IF n = 0 THEN NaN ELSE Signed(str, DigitsValue(str, first, n, 0))

\* The decimal str holds, in hundredths: n digits from position first on,
\* then a point and m decimals.
DecimalOf(str, first, n, m) ==
    IF n = 0 /\ m = 0 THEN NaN
    ELSE Signed(str,
             (DigitsValue(str, first, n, 0) * 100) +
             (IF m >= 1 THEN DigitValue(str[first + n + 1]) * 10 ELSE 0) +
             (IF m >= 2 THEN DigitValue(str[first + n + 2]) ELSE 0))

IntegerFrom(str, first) == IntegerOf(str, first, DigitRun(str, first))
DecimalAfter(str, first, n) ==
    DecimalOf(str, first, n, FractionRun(str, first + n))
DecimalFrom(str, first) == DecimalAfter(str, first, DigitRun(str, first))
IntegerIn(str) == IntegerFrom(str, SignLength(str) + 1)
DecimalIn(str) == DecimalFrom(str, SignLength(str) + 1)

\* parseInt(str): white space, a sign, then digits up to the first symbol
\* that is not one; NaN without a digit.  The result is in units.
parseInt(raw) == IntegerIn(TrimStart(raw))

\* parseFloat(str): white space, a sign, digits, then a point and digits;
\* NaN without a digit.  The result is in hundredths; the texts of the
\* model hold no more than two decimals and no exponent.
parseFloat(raw) == DecimalIn(TrimStart(raw))

\* A parseFloat result for a field the model holds in units (x and y):
\* the texts of the model give these fields no decimals.
Units(h) == IF h = NaN THEN NaN ELSE IF h < 0 THEN 0 - ((0 - h) \div 100) ELSE h \div 100

\* v || 0 on a number.
OrZero(v) == IF v = NaN \/ v = JsonNull THEN 0 ELSE v

(***************************************************************************)
(* The parser: lib/parser                                                  *)
(***************************************************************************)
RECURSIVE StripFrom(_, _)
\* line.replace(/(^|\s)\([^)]*\)/g, '$1') read from position i on: a
\* parenthesis that opens the line or follows white space is dropped up to
\* the first closing one.
StripFrom(line, i) ==
    IF i > Len(line) THEN <<>>
    ELSE LET closes == {j \in (i + 1) .. Len(line) : line[j] = ")"}
             opens == /\ line[i] = "("
                      /\ i = 1 \/ IsSpace(line[i - 1])
                      /\ closes # {}
         IN IF opens
            THEN StripFrom(line, (CHOOSE j \in closes :
                                     \A k \in closes : j <= k) + 1)
            ELSE <<line[i]>> \o StripFrom(line, i + 1)

stripComments(line) == Trim(StripFrom(line, 1))

RECURSIVE countTabs(_)
countTabs(line) ==
    IF line # <<>> /\ Head(line) = "\t" THEN 1 + countTabs(Tail(line)) ELSE 0

\* parseBlock that reads hue with parseInt.
parseBlockIntHue(parts) ==
    [type |-> "Block",
     x |-> Units(parseFloat(Part(parts, 1))),
     y |-> Units(parseFloat(Part(parts, 2))),
     id |-> parseInt(Part(parts, 3)),
     width |-> parseInt(Part(parts, 4)),
     height |-> parseInt(Part(parts, 5)),
     hue |-> parseInt(Part(parts, 6)) * 100,
     sat |-> parseFloat(Part(parts, 7)),
     val |-> parseFloat(Part(parts, 8)),
     zoomfactor |-> parseFloat(Part(parts, 9)),
     fillwithwalls |-> parseInt(Part(parts, 10)),
     player |-> parseInt(Part(parts, 11)),
     possessable |-> parseInt(Part(parts, 12)),
     playerorder |-> parseInt(Part(parts, 13)),
     fliph |-> parseInt(Part(parts, 14)),
     floatinspace |-> parseInt(Part(parts, 15)),
     specialeffect |-> OrZero(parseInt(Part(parts, 16))),
     children |-> <<>>]

parseBlock(parts) ==
    [type |-> "Block",
     x |-> Units(parseFloat(Part(parts, 1))),
     y |-> Units(parseFloat(Part(parts, 2))),
     id |-> parseInt(Part(parts, 3)),
     width |-> parseInt(Part(parts, 4)),
     height |-> parseInt(Part(parts, 5)),
     hue |-> parseFloat(Part(parts, 6)),
     sat |-> parseFloat(Part(parts, 7)),
     val |-> parseFloat(Part(parts, 8)),
     zoomfactor |-> parseFloat(Part(parts, 9)),
     fillwithwalls |-> parseInt(Part(parts, 10)),
     player |-> parseInt(Part(parts, 11)),
     possessable |-> parseInt(Part(parts, 12)),
     playerorder |-> parseInt(Part(parts, 13)),
     fliph |-> parseInt(Part(parts, 14)),
     floatinspace |-> parseInt(Part(parts, 15)),
     specialeffect |-> OrZero(parseInt(Part(parts, 16))),
     children |-> <<>>]

parseWall(parts) ==
    [type |-> "Wall",
     x |-> Units(parseFloat(Part(parts, 1))),
     y |-> Units(parseFloat(Part(parts, 2))),
     player |-> parseInt(Part(parts, 3)),
     possessable |-> parseInt(Part(parts, 4)),
     playerorder |-> parseInt(Part(parts, 5))]

RECURSIVE DecodeNewlines(_)
\* encoded.replace(/\\n/g, '\n'): a backslash followed by n becomes a
\* newline.
DecodeNewlines(str) ==
    IF str = <<>> THEN <<>>
    ELSE IF Len(str) >= 2 /\ str[1] = "\\" /\ str[2] = "n"
    THEN <<"\n">> \o DecodeNewlines(SubSeq(str, 3, Len(str)))
    ELSE <<Head(str)>> \o DecodeNewlines(Tail(str))

\* str.replace(/_/g, ' ')
DecodeSpaces(str) == [i \in DOMAIN str |-> IF str[i] = "_" THEN " " ELSE str[i]]

parseFloor(parts) ==
    LET floorType == Part(parts, 3)
        encoded == Join(SubSeq(parts, 5, Len(parts)), <<" ">>)
    IN [type |-> "Floor",
        x |-> Units(parseFloat(Part(parts, 1))),
        y |-> Units(parseFloat(Part(parts, 2))),
        floorType |-> floorType,
        infoText |-> IF floorType = <<"Info">> /\ Len(parts) > 4
                     THEN <<DecodeSpaces(DecodeNewlines(encoded))>>
                     ELSE <<>>]

parseRef(parts) ==
    [type |-> "Ref",
     x |-> Units(parseFloat(Part(parts, 1))),
     y |-> Units(parseFloat(Part(parts, 2))),
     id |-> parseInt(Part(parts, 3)),
     exitblock |-> parseInt(Part(parts, 4)),
     infexit |-> parseInt(Part(parts, 5)),
     infexitnum |-> parseInt(Part(parts, 6)),
     infenter |-> parseInt(Part(parts, 7)),
     infenternum |-> parseInt(Part(parts, 8)),
     infenterid |-> parseInt(Part(parts, 9)),
     player |-> parseInt(Part(parts, 10)),
     possessable |-> parseInt(Part(parts, 11)),
     playerorder |-> parseInt(Part(parts, 12)),
     fliph |-> parseInt(Part(parts, 13)),
     floatinspace |-> parseInt(Part(parts, 14)),
     specialeffect |-> OrZero(parseInt(Part(parts, 15)))]

\* line.match(/^\(([^)]*)\)$/): the line is one parenthesis pair.
IsCommentLine(line) ==
    /\ Len(line) >= 2
    /\ Head(line) = "(" /\ Last(line) = ")"
    /\ \A i \in 2 .. (Len(line) - 1) : line[i] # ")"

\* String.prototype.toLowerCase on a key: the words of the model that are
\* written with capitals.
toLowerCase(str) ==
    [i \in DOMAIN str |->
        IF str[i] = "Version" THEN "version"
        ELSE IF str[i] = "Shed" THEN "shed" ELSE str[i]]

\* The switch of parseHeader on the key of a line, and the comment line
\* that gives the level its name.
HeaderEntry(header, line, stripped, parts, key) ==
    IF stripped = <<>>
    THEN IF IsCommentLine(line)
         THEN [header EXCEPT !.comment = <<SubSeq(line, 2, Len(line) - 1)>>]
         ELSE header
    ELSE IF key = <<"version">>
    THEN [header EXCEPT !.version = parseInt(Part(parts, 1))]
    ELSE IF key = <<"shed">> THEN [header EXCEPT !.shed = <<TRUE>>]
    ELSE IF key = <<"inner_push">>
    THEN [header EXCEPT !.innerPush = <<TRUE>>]
    ELSE IF key = <<"attempt_order">>
    THEN [header EXCEPT !.attemptOrder =
             IF Len(parts) >= 2 THEN <<parts[2]>> ELSE <<>>]
    ELSE IF key = <<"custom_level_music">>
    THEN [header EXCEPT !.customLevelMusic = <<parseInt(Part(parts, 1))>>]
    ELSE IF key = <<"custom_level_palette">>
    THEN [header EXCEPT !.customLevelPalette = <<parseInt(Part(parts, 1))>>]
    ELSE header

HeaderParts(header, line, stripped, parts) ==
    HeaderEntry(header, line, stripped, parts, toLowerCase(Part(parts, 0)))

HeaderStripped(header, line, stripped) ==
    HeaderParts(header, line, stripped, SplitSpaces(stripped, 1, <<>>))

\* One turn of the loop of parseHeader.
parseHeaderLine(header, line) ==
    HeaderStripped(header, line, stripComments(line))

RECURSIVE parseHeaderFrom(_, _, _)
parseHeaderFrom(header, lines, i) ==
    IF i > Len(lines) THEN header
    ELSE parseHeaderFrom(parseHeaderLine(header, lines[i]), lines, i + 1)

parseHeader(lines) == parseHeaderFrom(defaultHeader, lines, 1)

\* The switch of parseLevel on the first part of an object line; NULL for
\* an unknown object type.
parseObject(parts) ==
    LET objectType == Part(parts, 0)
    IN IF objectType = <<"Block">> THEN parseBlock(parts)
       ELSE IF objectType = <<"Wall">> THEN parseWall(parts)
       ELSE IF objectType = <<"Floor">> THEN parseFloor(parts)
       ELSE IF objectType = <<"Ref">> THEN parseRef(parts)
       ELSE NULL

RECURSIVE PopTo(_, _)
\* while (stack.length > depth) stack.pop()
PopTo(stack, depth) ==
    IF Len(stack) > depth THEN PopTo(SubSeq(stack, 1, Len(stack) - 1), depth)
    ELSE stack

\* The end of one turn of the object loop of parseLevel: obj goes into the
\* tree.  acc holds the root read so far (NULL before the first one) and
\* the stack of open Blocks, each held as its path from the root; stack is
\* that stack popped to the depth of the line.
PlaceParsed(acc, obj, depth, stack) ==
    IF obj = NULL THEN acc
    ELSE IF depth = 0
    THEN IF obj.type = "Block" THEN [root |-> obj, stack |-> <<<<>>>>]
         ELSE acc
    ELSE IF stack = <<>> THEN [acc EXCEPT !.stack = stack]
    ELSE [root |-> ReplaceAt(acc.root, Last(stack),
                      [ObjAt(acc.root, Last(stack)) EXCEPT
                          !.children = Append(@, obj)]),
          stack |-> IF obj.type = "Block"
                    THEN Append(stack,
                             Append(Last(stack),
                                 Len(ObjAt(acc.root, Last(stack)).children)))
                    ELSE stack]

\* A turn of the object loop that pops nothing from the stack.
ParseStrippedUnpopped(acc, stripped, depth) ==
    IF stripped = <<>> THEN acc
    ELSE PlaceParsed(acc, parseObject(SplitSpaces(stripped, 1, <<>>)), depth,
                     acc.stack)

ParseStripped(acc, stripped, depth) ==
    IF stripped = <<>> THEN acc
    ELSE PlaceParsed(acc, parseObject(SplitSpaces(stripped, 1, <<>>)), depth,
                     PopTo(acc.stack, depth))

\* One turn of the object loop of parseLevel.
parseObjectLine(acc, line) ==
    ParseStripped(acc, stripComments(line), countTabs(line))

RECURSIVE parseObjectsFrom(_, _, _)
\* acc is a record: the test on its domain makes its value be computed
\* at each turn of the loop.
parseObjectsFrom(acc, lines, i) ==
    IF i > Len(lines) \/ DOMAIN acc = {} THEN acc
    ELSE parseObjectsFrom(parseObjectLine(acc, lines[i]), lines, i + 1)

\* parseLevel(text): [ok |-> TRUE, level |-> the document], or
\* [ok |-> FALSE, error |-> the message of the Error thrown].
\* lines.findIndex((line) => stripComments(line) === '#'): the 0-based
\* index of the first separator line, or -1.
SeparatorIndex(lines) ==
    IF \E i \in DOMAIN lines : stripComments(lines[i]) = <<"#">>
    THEN (CHOOSE i \in DOMAIN lines :
             /\ stripComments(lines[i]) = <<"#">>
             /\ \A j \in 1 .. (i - 1) : stripComments(lines[j]) # <<"#">>) - 1
    ELSE 0 - 1

\* The end of parseLevel with an empty root Block in place of the Error
\* for a text without a root.
ParsedLevelEmptyRoot(header, acc) ==
    [ok |-> TRUE,
     level |-> [header |-> header,
                root |-> IF acc.root = NULL
                         THEN createBlock(0, 0 - 1, 0 - 1, 5, 5, 0)
                         ELSE acc.root]]

\* The end of parseLevel: [ok |-> TRUE, level |-> the document], or
\* [ok |-> FALSE, error |-> the message of the Error thrown].
ParsedLevel(header, acc) ==
    IF acc.root = NULL
    THEN [ok |-> FALSE,
          error |-> "Invalid level format: no root block found"]
    ELSE [ok |-> TRUE, level |-> [header |-> header, root |-> acc.root]]

ParseSections(lines, separatorIndex) ==
    IF separatorIndex = 0 - 1
    THEN [ok |-> FALSE,
          error |-> "Invalid level format: missing # separator"]
    ELSE ParsedLevel(
             parseHeader(SubSeq(lines, 1, separatorIndex)),
             parseObjectsFrom([root |-> NULL, stack |-> <<>>],
                 SubSeq(lines, separatorIndex + 2, Len(lines)), 1))

ParseLines(lines) == ParseSections(lines, SeparatorIndex(lines))

parseLevel(text) == ParseLines(Split(text, "\n"))

(***************************************************************************)
(* The serializer: lib/serializer                                          *)
(***************************************************************************)
serializeBlock(block) ==
    Join(<<<<"Block">>, JoinNumber(block.x), JoinNumber(block.y),
           JoinNumber(block.id), JoinNumber(block.width),
           JoinNumber(block.height), JoinDecimal(block.hue),
           JoinDecimal(block.sat), JoinDecimal(block.val),
           JoinDecimal(block.zoomfactor), JoinNumber(block.fillwithwalls),
           JoinNumber(block.player), JoinNumber(block.possessable),
           JoinNumber(block.playerorder), JoinNumber(block.fliph),
           JoinNumber(block.floatinspace), JoinNumber(block.specialeffect)>>,
         <<" ">>)

serializeWall(wall) ==
    Join(<<<<"Wall">>, JoinNumber(wall.x), JoinNumber(wall.y),
           JoinNumber(wall.player), JoinNumber(wall.possessable),
           JoinNumber(wall.playerorder)>>, <<" ">>)

serializeFloor(floor) ==
    Join(<<<<"Floor">>, JoinNumber(floor.x), JoinNumber(floor.y),
           floor.floorType>>, <<" ">>)

serializeRef(ref) ==
    Join(<<<<"Ref">>, JoinNumber(ref.x), JoinNumber(ref.y),
           JoinNumber(ref.id), JoinNumber(ref.exitblock),
           JoinNumber(ref.infexit), JoinNumber(ref.infexitnum),
           JoinNumber(ref.infenter), JoinNumber(ref.infenternum),
           JoinNumber(ref.infenterid), JoinNumber(ref.player),
           JoinNumber(ref.possessable), JoinNumber(ref.playerorder),
           JoinNumber(ref.fliph), JoinNumber(ref.floatinspace),
           JoinNumber(ref.specialeffect)>>, <<" ">>)

serializeObject(obj) ==
    IF obj.type = "Block" THEN serializeBlock(obj)
    ELSE IF obj.type = "Wall" THEN serializeWall(obj)
    ELSE IF obj.type = "Floor" THEN serializeFloor(obj)
    ELSE serializeRef(obj)

\* '\t'.repeat(depth)
Indent(depth) == [i \in 1 .. depth |-> "\t"]

RECURSIVE serializeObjectTree(_, _)
RECURSIVE serializeChildren(_, _, _)
RECURSIVE serializeChildrenReversed(_, _, _)
\* The lines of the children from the i-th on, the last child first.
serializeChildrenReversed(block, depth, i) ==
    IF i > Len(block.children) THEN <<>>
    ELSE serializeChildrenReversed(block, depth, i + 1) \o
             serializeObjectTree(block.children[i], depth)

\* The lines of obj and of its subtree, in pre-order.
serializeObjectTree(obj, depth) ==
    <<Indent(depth) \o serializeObject(obj)>> \o
        (IF obj.type = "Block" THEN serializeChildren(obj, depth + 1, 1)
         ELSE <<>>)

serializeChildren(block, depth, i) ==
    IF i > Len(block.children) THEN <<>>
    ELSE serializeObjectTree(block.children[i], depth) \o
             serializeChildren(block, depth, i + 1)

\* if (v) on an optional boolean and on an optional string: undefined,
\* false and '' are falsy.
TruthyFlag(opt) == opt # <<>> /\ opt[1]
TruthyString(opt) == opt # <<>> /\ opt[1] # <<>>

serializeLevel(lvl) ==
    LET h == lvl.header
        lines ==
            <<<<"version", " ">> \o NumberToString(h.version)>> \o
            (IF TruthyString(h.comment)
             THEN <<<<"(">> \o h.comment[1] \o <<")">>>> ELSE <<>>) \o
            (IF TruthyFlag(h.shed) THEN <<<<"shed">>>> ELSE <<>>) \o
            (IF TruthyFlag(h.innerPush) THEN <<<<"inner_push">>>> ELSE <<>>) \o
            (IF TruthyString(h.attemptOrder)
             THEN <<<<"attempt_order", " ">> \o h.attemptOrder[1]>>
             ELSE <<>>) \o
            (IF h.customLevelMusic # <<>>
             THEN <<<<"custom_level_music", " ">> \o
                        NumberToString(h.customLevelMusic[1])>>
             ELSE <<>>) \o
            (IF h.customLevelPalette # <<>>
             THEN <<<<"custom_level_palette", " ">> \o
                        NumberToString(h.customLevelPalette[1])>>
             ELSE <<>>) \o
            <<<<"#">>>> \o
            serializeObjectTree(lvl.root, 0)
    IN Join(lines, <<"\n">>)

(***************************************************************************)
(* The editor store: store/levelStore                                      *)
(***************************************************************************)
VARIABLES
    level,             \* state.level
    selectedPath,      \* state.selectedPath: NoPath (null) or a path
    selectedObject,    \* state.selectedObject: NULL, Live(p) or Detached(o)
    selectedPosition,  \* state.selectedPosition: NULL or [x, y]
    clipboard,         \* state.clipboard: NULL or an object
    editingBlockId,    \* state.editingBlockId
    tool,              \* state.tool
    floorToolType,     \* state.floorToolType
    refToolIsExit,     \* state.refToolIsExit
    refToolTargetId,   \* state.refToolTargetId
    undoStack,         \* historyState.undoStack
    redoStack,         \* historyState.redoStack
    threw,             \* whether the last handler call ended in an exception
    importResult       \* what the last handler call returned, when it was
                       \* importLevel: NULL, or [success, error]

vars == <<level, selectedPath, selectedObject, selectedPosition, clipboard,
          editingBlockId, tool, floorToolType, refToolIsExit,
          refToolTargetId, undoStack, redoStack, threw, importResult>>

Live(path) == [ref |-> "live", path |-> path]
Detached(obj) == [ref |-> "detached", obj |-> obj]

\* The store as one value, as a handler finds it when it is called.
St ==
    [level |-> level, selectedPath |-> selectedPath,
     selectedObject |-> selectedObject,
     selectedPosition |-> selectedPosition, clipboard |-> clipboard,
     editingBlockId |-> editingBlockId, tool |-> tool,
     floorToolType |-> floorToolType, refToolIsExit |-> refToolIsExit,
     refToolTargetId |-> refToolTargetId, undoStack |-> undoStack,
     redoStack |-> redoStack, threw |-> FALSE, importResult |-> NULL]

initialState ==
    [level |-> createDefaultLevel, selectedPath |-> NoPath,
     selectedObject |-> NULL, selectedPosition |-> [x |-> 0, y |-> 0],
     clipboard |-> NULL, editingBlockId |-> 0, tool |-> "select",
     floorToolType |-> <<"Button">>, refToolIsExit |-> FALSE,
     refToolTargetId |-> 0, undoStack |-> <<>>, redoStack |-> <<>>,
     threw |-> FALSE, importResult |-> NULL]

\* The object state.selectedObject refers to (NULL when it is null).
Deref(s) ==
    IF s.selectedObject = NULL THEN NULL
    ELSE IF s.selectedObject.ref = "live"
         THEN ObjAt(s.level.root, s.selectedObject.path)
         ELSE s.selectedObject.obj

\* An assignment through state.selectedObject that also reaches the newest
\* snapshot of the undo stack, as if the snapshot shared its objects with
\* the document.
SetSelectedShared(s, new) ==
    IF s.selectedObject.ref = "live"
    THEN LET p == s.selectedObject.path
             n == Len(s.undoStack)
         IN IF n > 0 /\ ObjAt(s.undoStack[n].level.root, p) # NULL
            THEN [s EXCEPT
                    !.level.root = ReplaceAt(@, p, new),
                    !.undoStack[n].level.root = ReplaceAt(@, p, new)]
            ELSE [s EXCEPT !.level.root = ReplaceAt(@, p, new)]
    ELSE [s EXCEPT !.selectedObject = Detached(new)]

\* An assignment through state.selectedObject: the object it refers to
\* becomes new, in the tree when the reference is live.
SetSelected(s, new) ==
    IF s.selectedObject.ref = "live"
    THEN [s EXCEPT !.level.root = ReplaceAt(@, s.selectedObject.path, new)]
    ELSE [s EXCEPT !.selectedObject = Detached(new)]

\* obj[key] = value on a JavaScript object.
SetField(obj, key, value) ==
    [k \in DOMAIN obj \cup {key} |-> IF k = key THEN value ELSE obj[k]]

\* Path of the Block getEditingBlock() returns: the Block with id
\* editingBlockId, or the root when there is none.
EditingPath(s) ==
    LET p == PathOfBlock(s.level.root, s.editingBlockId)
    IN IF p = NoPath THEN <<>> ELSE p

getEditingBlock(s) == ObjAt(s.level.root, EditingPath(s))

\* block.children.push(obj) on the Block at path bp.
PushChild(s, bp, obj) ==
    LET block == ObjAt(s.level.root, bp)
    IN [s EXCEPT !.level.root =
           ReplaceAt(@, bp, [block EXCEPT !.children = Append(@, obj)])]

\* What a reference refers to after children.splice(i, 1) on the Block at
\* path bp: the removed object (and what is below it) leaves the tree, the
\* later siblings move down by one.
SpliceRef(ref, root, bp, i) ==
    IF ref = NULL THEN ref
    ELSE IF ref.ref # "live" THEN ref
    ELSE LET q == ref.path
         IN IF Len(q) > Len(bp) /\ IsPrefix(bp, q)
            THEN LET j == q[Len(bp) + 1]
                 IN IF j = i THEN Detached(ObjAt(root, q))
                    ELSE IF j > i
                         THEN Live([q EXCEPT ![Len(bp) + 1] = j - 1])
                         ELSE ref
            ELSE ref

\* A splice that removes the child and every later sibling.
SpliceChildRest(s, bp, i) ==
    LET block == ObjAt(s.level.root, bp)
    IN IF i + 1 \in DOMAIN block.children
       THEN [s EXCEPT
               !.level.root =
                   ReplaceAt(@, bp,
                             [block EXCEPT !.children = SubSeq(@, 1, i)]),
               !.selectedObject = SpliceRef(@, s.level.root, bp, i)]
       ELSE s

\* block.children.splice(i, 1) on the Block at path bp.
SpliceChild(s, bp, i) ==
    LET block == ObjAt(s.level.root, bp)
    IN IF i + 1 \in DOMAIN block.children
       THEN [s EXCEPT
               !.level.root =
                   ReplaceAt(@, bp,
                             [block EXCEPT !.children = Splice1(@, i)]),
               !.selectedObject = SpliceRef(@, s.level.root, bp, i)]
       ELSE s

HistoryEntry(s) ==
    [level |-> JsonCloneLevel(s.level), editingBlockId |-> s.editingBlockId,
     selectedPath |-> s.selectedPath,
     selectedPosition |-> s.selectedPosition]

\* saveToHistory without its limit on the undo stack.
saveToHistoryNoLimit(s) ==
    [s EXCEPT !.undoStack = Append(@, HistoryEntry(s)), !.redoStack = <<>>]

\* saveToHistory that leaves the redo stack as it is.
saveToHistoryKeepRedo(s) ==
    LET pushed == Append(s.undoStack, HistoryEntry(s))
    IN [s EXCEPT !.undoStack = IF Len(pushed) > HistoryLimit
                               THEN Tail(pushed) ELSE pushed]

saveToHistory(s) ==
    LET pushed == Append(s.undoStack, HistoryEntry(s))
    IN [s EXCEPT !.undoStack = IF Len(pushed) > HistoryLimit
                               THEN Tail(pushed) ELSE pushed,
                 !.redoStack = <<>>]

\* The selectedObject that undo and redo restore from the entry's path:
\* block.children[path[0]] ?? null .
RestoredObject(s, path) ==
    IF path # NoPath /\ path # <<>>
    THEN LET bp == EditingPath(s)
         IN IF path[1] + 1 \in DOMAIN ObjAt(s.level.root, bp).children
            THEN Live(Append(bp, path[1])) ELSE NULL
    ELSE NULL

\* A restore that leaves the Block being edited as it is.
RestoreEntryKeepEditing(s, entry) ==
    LET s1 == [s EXCEPT !.level = entry.level,
                        !.selectedPath = entry.selectedPath,
                        !.selectedPosition = entry.selectedPosition]
    IN [s1 EXCEPT !.selectedObject = RestoredObject(s1, entry.selectedPath)]

RestoreEntry(s, entry) ==
    LET s1 == [s EXCEPT !.level = entry.level,
                        !.editingBlockId = entry.editingBlockId,
                        !.selectedPath = entry.selectedPath,
                        !.selectedPosition = entry.selectedPosition]
    IN [s1 EXCEPT !.selectedObject = RestoredObject(s1, entry.selectedPath)]

\* undo that drops the current document instead of pushing it on the redo
\* stack.
undoNoRedoPush(s) ==
    IF Len(s.undoStack) = 0 THEN s
    ELSE RestoreEntry(
             [s EXCEPT !.undoStack = SubSeq(@, 1, Len(@) - 1)],
             Last(s.undoStack))

\* undo that resets the selection when the undo stack is empty.
undoClearsSelection(s) ==
    IF Len(s.undoStack) = 0
    THEN [s EXCEPT !.selectedPath = NoPath, !.selectedObject = NULL,
                   !.selectedPosition = NULL]
    ELSE LET previousEntry == Last(s.undoStack)
             s1 == [s EXCEPT
                      !.redoStack = Append(@, HistoryEntry(s)),
                      !.undoStack = SubSeq(@, 1, Len(@) - 1)]
         IN RestoreEntry(s1, previousEntry)

undo(s) ==
    IF Len(s.undoStack) = 0 THEN s
    ELSE LET previousEntry == Last(s.undoStack)
             s1 == [s EXCEPT
                      !.redoStack = Append(@, HistoryEntry(s)),
                      !.undoStack = SubSeq(@, 1, Len(@) - 1)]
         IN RestoreEntry(s1, previousEntry)

\* redo without its push on the undo stack.
redoNoPush(s) ==
    IF Len(s.redoStack) = 0 THEN s
    ELSE RestoreEntry(
             [s EXCEPT !.redoStack = SubSeq(@, 1, Len(@) - 1)],
             Last(s.redoStack))

redo(s) ==
    IF Len(s.redoStack) = 0 THEN s
    ELSE LET nextEntry == Last(s.redoStack)
             s1 == [s EXCEPT
                      !.undoStack = Append(@, HistoryEntry(s)),
                      !.redoStack = SubSeq(@, 1, Len(@) - 1)]
         IN RestoreEntry(s1, nextEntry)

newLevel(s) ==
    [s EXCEPT !.level = createDefaultLevel, !.selectedPath = NoPath,
              !.selectedObject = NULL, !.editingBlockId = 0]

\* importLevel(text): the try block assigns the parsed level and resets
\* the selection; the catch block returns the error as a string.
\* The result importLevel returns is kept in importResult; the error of a
\* failure is String(error) of the Error parseLevel threw.
ImportParsed(s, parsed) ==
    IF parsed.ok
    THEN [s EXCEPT !.level = parsed.level, !.selectedPath = NoPath,
                   !.selectedObject = NULL, !.editingBlockId = 0,
                   !.importResult = [success |-> TRUE, error |-> ""]]
    ELSE [s EXCEPT
             !.importResult = [success |-> FALSE,
                               error |-> "Error: " \o parsed.error]]

\* importLevel that resets the selection and the editing Block before it
\* parses the text.
importLevelResetFirst(s, text) ==
    ImportParsed([s EXCEPT !.selectedPath = NoPath, !.selectedObject = NULL,
                           !.editingBlockId = 0],
                 parseLevel(text))

importLevel(s, text) == ImportParsed(s, parseLevel(text))

exportLevel(s) == serializeLevel(s.level)

setTool(s, t) == [s EXCEPT !.tool = t]
setFloorToolType(s, t) == [s EXCEPT !.floorToolType = t]
setRefToolIsExit(s, isExit) == [s EXCEPT !.refToolIsExit = isExit]
setRefToolTargetId(s, id) == [s EXCEPT !.refToolTargetId = id]

enterBlock(s, blockId) ==
    IF findBlockById(s.level, blockId) # NULL
    THEN [s EXCEPT !.editingBlockId = blockId, !.selectedPath = NoPath,
                   !.selectedObject = NULL,
                   !.selectedPosition = [x |-> 0, y |-> 0]]
    ELSE s

enterBlockFromTree(s, blockId) ==
    IF findBlockById(s.level, blockId) # NULL
    THEN [s EXCEPT !.editingBlockId = blockId, !.selectedPath = NoPath,
                   !.selectedObject = Live(PathOfBlock(s.level.root, blockId)),
                   !.selectedPosition = NULL]
    ELSE s

RECURSIVE findParent(_, _, _)
RECURSIVE findParentFrom(_, _, _, _)
\* exitToParent's findParent: the path of the first Block (depth first)
\* that has a Block child with id targetId, or NoPath.
findParent(root, path, targetId) ==
    IF ObjAt(root, path).type = "Block"
    THEN findParentFrom(root, path, targetId, 0)
    ELSE NoPath

findParentFrom(root, path, targetId, i) ==
    LET obj == ObjAt(root, path)
    IN IF i + 1 > Len(obj.children) THEN NoPath
       ELSE LET child == obj.children[i + 1]
            IN IF child.type = "Block" /\ StrictEq(child.id, targetId)
               THEN path
               ELSE LET found == findParent(root, Append(path, i), targetId)
                    IN IF found # NoPath THEN found
                       ELSE findParentFrom(root, path, targetId, i + 1)

exitToParent(s) ==
    IF s.editingBlockId = 0 THEN s
    ELSE LET exitingBlockId == s.editingBlockId
             pp == findParent(s.level.root, <<>>, s.editingBlockId)
         IN IF pp = NoPath THEN s
            ELSE LET parent == ObjAt(s.level.root, pp)
                     exitedBlockIndex ==
                         FindIndex(parent.children,
                             LAMBDA child : child.type = "Block"
                                 /\ StrictEq(child.id, exitingBlockId))
                 IN IF exitedBlockIndex >= 0
                    THEN [s EXCEPT
                            !.editingBlockId = parent.id,
                            !.selectedPath = <<exitedBlockIndex>>,
                            !.selectedObject =
                                Live(Append(pp, exitedBlockIndex)),
                            !.selectedPosition = NULL]
                    ELSE [s EXCEPT
                            !.editingBlockId = parent.id,
                            !.selectedPath = NoPath,
                            !.selectedObject = NULL,
                            !.selectedPosition = [x |-> 0, y |-> 0]]

selectObject(s, path) ==
    LET s1 == [s EXCEPT !.selectedPath = path, !.selectedPosition = NULL]
    IN IF path = NoPath THEN [s1 EXCEPT !.selectedObject = NULL]
       ELSE LET p == EditingPath(s) \o path
            IN IF ObjAt(s.level.root, p) # NULL
               THEN [s1 EXCEPT !.selectedObject = Live(p)]
               ELSE [s1 EXCEPT !.selectedObject = NULL]

clearSelection(s) ==
    [s EXCEPT !.selectedPath = NoPath, !.selectedObject = NULL,
              !.selectedPosition = NULL]

selectPosition(s, x, y) ==
    [s EXCEPT !.selectedPath = NoPath, !.selectedObject = NULL,
              !.selectedPosition = [x |-> x, y |-> y]]

(***************************************************************************)
(* Inserting, deleting and moving objects                                  *)
(***************************************************************************)
\* The children of block at cell (x, y):  obj.x === x && obj.y === y .
AtPos(block, x, y) ==
    SelectSeq(block.children,
              LAMBDA obj : StrictEq(obj.x, x) /\ StrictEq(obj.y, y))

hasNonFloor(block, x, y) ==
    \E i \in DOMAIN AtPos(block, x, y) : AtPos(block, x, y)[i].type # "Floor"

hasFloor(block, x, y) ==
    \E i \in DOMAIN AtPos(block, x, y) : AtPos(block, x, y)[i].type = "Floor"

ObjectTypes == {"box", "block", "wall", "floor", "ref"}

\* The switch (type) of createObjectAtPosition, placeObjectAtSelection and
\* placeObjectAtPositionXY.
NewObject(s, type, x, y) ==
    CASE type = "box" -> createBox(getNextBlockId(s.level), x, y)
      [] type = "block" ->
            createBlock(getNextBlockId(s.level), x, y, 3, 3, 0)
      [] type = "wall" -> createWall(x, y)
      [] type = "floor" -> createFloor(x, y, s.floorToolType, <<>>)
      [] type = "ref" ->
            createRef(x, y, s.refToolTargetId, s.refToolIsExit)

\* Select the object just pushed on the Block at path bp.
SelectLastChild(s, bp) ==
    LET idx == Len(ObjAt(s.level.root, bp).children) - 1
    IN [s EXCEPT !.selectedPath = <<idx>>,
                 !.selectedObject = Live(Append(bp, idx)),
                 !.selectedPosition = NULL]

createObjectAtPosition(s, type) ==
    IF s.selectedPosition = NULL THEN s
    ELSE LET s1 == saveToHistory(s)
             x == s.selectedPosition.x
             y == s.selectedPosition.y
             bp == EditingPath(s1)
         IN SelectLastChild(PushChild(s1, bp, NewObject(s1, type, x, y)), bp)

addObject(s, x, y) ==
    LET bp == EditingPath(s)
        block == ObjAt(s.level.root, bp)
    IN IF s.tool = "floor" /\ hasFloor(block, x, y) THEN s
       ELSE IF s.tool # "floor" /\ hasNonFloor(block, x, y) THEN s
       ELSE LET s1 == saveToHistory(s)
            IN CASE s.tool = "block" ->
                      PushChild(s1, bp,
                          createBlock(getNextBlockId(s1.level), x, y, 3, 3, 1))
                 [] s.tool = "wall" -> PushChild(s1, bp, createWall(x, y))
                 [] s.tool = "floor" ->
                      PushChild(s1, bp,
                          createFloor(x, y, s.floorToolType, <<>>))
                 [] s.tool = "ref" ->
                      PushChild(s1, bp,
                          createRef(x, y, s.refToolTargetId, s.refToolIsExit))
                 [] OTHER -> s1

RECURSIVE NavigateToParent(_, _, _, _)
\* deleteSelected's walk to the parent of the last index of path, from the
\* Block at pp: NoPath when the walk reads .type of an undefined child, which
\* throws a TypeError.
NavigateToParent(root, pp, path, i) ==
    IF i > Len(path) - 1 THEN pp
    ELSE LET child == ObjAt(root, Append(pp, path[i]))
         IN IF child = NULL THEN NoPath
            ELSE IF child.type = "Block"
                 THEN NavigateToParent(root, Append(pp, path[i]), path, i + 1)
                 ELSE NavigateToParent(root, pp, path, i + 1)

deleteSelected(s) ==
    IF s.selectedPath = NoPath THEN s
    ELSE IF s.selectedPath = <<>> \/ s.selectedObject = NULL THEN s
    ELSE LET s1 == saveToHistory(s)
             x == Deref(s).x
             y == Deref(s).y
             bp == EditingPath(s1)
             path == s.selectedPath
             pp == IF Len(path) = 1 THEN bp
                   ELSE NavigateToParent(s1.level.root, bp, path, 1)
         IN IF pp = NoPath THEN [s1 EXCEPT !.threw = TRUE]
            ELSE [SpliceChild(s1, pp, Last(path)) EXCEPT
                     !.selectedPath = NoPath, !.selectedObject = NULL,
                     !.selectedPosition = [x |-> x, y |-> y]]

\* A move that declines to leave the parent on the left or at the top.
MoveObjectInside(obj, dx, dy) ==
    IF JsAdd(obj.x, dx) < 0 \/ JsAdd(obj.y, dy) < 0 THEN obj
    ELSE [obj EXCEPT !.x = JsAdd(@, dx), !.y = JsAdd(@, dy)]

MoveObject(obj, dx, dy) ==
    [obj EXCEPT !.x = JsAdd(@, dx), !.y = JsAdd(@, dy)]

moveSelected(s, dx, dy) ==
    IF s.selectedObject = NULL THEN s
    ELSE SetSelected(s, MoveObject(Deref(s), dx, dy))

moveSelectedWithHistory(s, dx, dy) ==
    IF s.selectedObject = NULL THEN s
    ELSE LET s1 == saveToHistory(s)
         IN SetSelected(s1, MoveObject(Deref(s1), dx, dy))

updateSelectedProperty(s, key, value) ==
    IF s.selectedObject = NULL THEN s
    ELSE SetSelected(s, SetField(Deref(s), key, value))

updateBlockSize(s, width, height) ==
    IF s.selectedObject = NULL THEN s
    ELSE IF Deref(s).type = "Block"
         THEN SetSelected(s, [Deref(s) EXCEPT !.width = width,
                                              !.height = height])
         ELSE s

updateBlockColor(s, hue, sat, val) ==
    IF s.selectedObject = NULL THEN s
    ELSE IF Deref(s).type = "Block"
         THEN SetSelected(s, [Deref(s) EXCEPT !.hue = hue, !.sat = sat,
                                              !.val = val])
         ELSE s

\* An assignment to fields of the Block getEditingBlock() returns.
SetEditingBlock(s, new) ==
    [s EXCEPT !.level.root = ReplaceAt(@, EditingPath(s), new)]

updateEditingBlockSize(s, width, height) ==
    SetEditingBlock(s, [getEditingBlock(s) EXCEPT !.width = width,
                                                  !.height = height])

updateEditingBlockProperty(s, key, value) ==
    SetEditingBlock(s, SetField(getEditingBlock(s), key, value))

updateEditingBlockColor(s, hue, sat, val) ==
    SetEditingBlock(s, [getEditingBlock(s) EXCEPT !.hue = hue, !.sat = sat,
                                                  !.val = val])

\* Object.assign(state.level.header, updates): updates is a function from
\* some of the header's keys to their new values.
updateHeader(s, updates) ==
    [s EXCEPT !.level.header =
        [k \in DOMAIN @ |-> IF k \in DOMAIN updates THEN updates[k] ELSE @[k]]]

updateHeaderProperty(s, key, value) ==
    [s EXCEPT !.level.header = SetField(@, key, value)]

(***************************************************************************)
(* Clipboard                                                               *)
(***************************************************************************)
RECURSIVE remapBlocks(_, _, _, _)
\* remapBlocks: the k-th Block of the subtree in pre-order (bps[k]) gets
\* id nextId + (k - 1).
remapBlocks(obj, bps, k, nextId) ==
    IF k > Len(bps) THEN obj
    ELSE remapBlocks(
             ReplaceAt(obj, bps[k],
                 [ObjAt(obj, bps[k]) EXCEPT !.id = JsAdd(nextId, k - 1)]),
             bps, k + 1, nextId)

RECURSIVE remapRefsEvery(_, _, _, _, _)
\* remapRefs that points every Ref of the subtree at the new id of the
\* root of the subtree.
remapRefsEvery(obj, original, rps, k, nextId) ==
    IF k > Len(rps) THEN obj
    ELSE remapRefsEvery(
             ReplaceAt(obj, rps[k], [ObjAt(obj, rps[k]) EXCEPT !.id = nextId]),
             original, rps, k + 1, nextId)

\* remapRefs that leaves every Ref as it is.
remapRefsNone(obj, original, rps, k, nextId) == obj

RECURSIVE remapRefs(_, _, _, _, _)
\* remapRefs: every Ref of the subtree whose target is a key of idMap gets
\* the mapped id.  original is the subtree before remapBlocks; the map
\* holds, for an old id, the new id of the last Block that had it.
remapRefs(obj, original, rps, k, nextId) ==
    IF k > Len(rps) THEN obj
    ELSE LET ref == ObjAt(obj, rps[k])
             bps == BlockPaths(original)
             hits == {i \in DOMAIN bps : ObjAt(original, bps[i]).id = ref.id}
             last == CHOOSE i \in hits : \A j \in hits : j <= i
         IN remapRefs(
                IF hits = {} THEN obj
                ELSE ReplaceAt(obj, rps[k],
                         [ref EXCEPT !.id = JsAdd(nextId, last - 1)]),
                original, rps, k + 1, nextId)

\* reassignBlockIds that gives a Block a new id only when its own id is
\* in use in the document.
reassignBlockIdsIfUsed(obj, lvl) ==
    IF obj.type # "Block" THEN obj
    ELSE IF \A i \in DOMAIN BlockIdSeq(lvl.root) :
                BlockIdSeq(lvl.root)[i] # obj.id
    THEN obj
    ELSE LET nextId == getNextBlockId(lvl)
             remapped == remapBlocks(obj, BlockPaths(obj), 1, nextId)
         IN remapRefs(remapped, obj, RefPaths(obj), 1, nextId)

reassignBlockIds(obj, lvl) ==
    IF obj.type # "Block" THEN obj
    ELSE LET nextId == getNextBlockId(lvl)
             remapped == remapBlocks(obj, BlockPaths(obj), 1, nextId)
         IN remapRefs(remapped, obj, RefPaths(obj), 1, nextId)

\* copySelected that also drops the selection.
copySelectedDeselects(s) ==
    IF s.selectedObject = NULL THEN s
    ELSE [s EXCEPT !.clipboard = JsonCloneObject(Deref(s)),
                   !.selectedPath = NoPath, !.selectedObject = NULL]

copySelected(s) ==
    IF s.selectedObject = NULL THEN s
    ELSE [s EXCEPT !.clipboard = JsonCloneObject(Deref(s))]

cutSelected(s) ==
    IF s.selectedObject = NULL \/ s.selectedPath = NoPath THEN s
    ELSE LET s1 == saveToHistory(s)
             x == Deref(s).x
             y == Deref(s).y
             s2 == [s1 EXCEPT !.clipboard = JsonCloneObject(Deref(s))]
             bp == EditingPath(s2)
             path == s.selectedPath
             s3 == IF Len(path) = 1 THEN SpliceChild(s2, bp, path[1]) ELSE s2
         IN [s3 EXCEPT !.selectedPath = NoPath, !.selectedObject = NULL,
                       !.selectedPosition = [x |-> x, y |-> y]]

\* The clone of the clipboard that paste and pasteAtPositionXY insert.
Pasted(s, x, y) ==
    LET pasted == [JsonCloneObject(s.clipboard) EXCEPT !.x = x, !.y = y]
    IN IF pasted.type = "Block" THEN reassignBlockIds(pasted, s.level)
       ELSE pasted

\* The cell placeObjectAtSelection and paste work on: the selected
\* position, else the selected object's cell, else NULL.
SelectionCell(s) ==
    IF s.selectedPosition # NULL THEN s.selectedPosition
    ELSE IF s.selectedObject # NULL
         THEN [x |-> Deref(s).x, y |-> Deref(s).y]
         ELSE NULL

\* paste that ends with the first child of the editing Block selected,
\* not the pasted copy.
pasteSelectFirst(s) ==
    IF s.clipboard = NULL \/ SelectionCell(s) = NULL THEN s
    ELSE LET x == SelectionCell(s).x
             y == SelectionCell(s).y
             bp == EditingPath(s)
             block == ObjAt(s.level.root, bp)
         IN IF s.clipboard.type = "Floor" /\ hasFloor(block, x, y) THEN s
            ELSE IF s.clipboard.type # "Floor" /\ hasNonFloor(block, x, y)
                 THEN s
            ELSE LET s1 == saveToHistory(s)
                 IN [PushChild(s1, bp, Pasted(s1, x, y)) EXCEPT
                        !.selectedPath = <<0>>,
                        !.selectedObject = Live(Append(bp, 0)),
                        !.selectedPosition = NULL]

paste(s) ==
    IF s.clipboard = NULL \/ SelectionCell(s) = NULL THEN s
    ELSE LET x == SelectionCell(s).x
             y == SelectionCell(s).y
             bp == EditingPath(s)
             block == ObjAt(s.level.root, bp)
         IN IF s.clipboard.type = "Floor" /\ hasFloor(block, x, y) THEN s
            ELSE IF s.clipboard.type # "Floor" /\ hasNonFloor(block, x, y)
                 THEN s
            ELSE LET s1 == saveToHistory(s)
                 IN SelectLastChild(PushChild(s1, bp, Pasted(s1, x, y)), bp)

placeObjectAtSelection(s, type) ==
    IF SelectionCell(s) = NULL THEN s
    ELSE LET x == SelectionCell(s).x
             y == SelectionCell(s).y
             bp == EditingPath(s)
             block == ObjAt(s.level.root, bp)
         IN IF type = "floor" /\ hasFloor(block, x, y) THEN s
            ELSE IF type # "floor" /\ hasNonFloor(block, x, y) THEN s
            ELSE LET s1 == saveToHistory(s)
                 IN SelectLastChild(
                        PushChild(s1, bp, NewObject(s1, type, x, y)), bp)

placeObjectAtPositionXY(s, x, y, type, saveHistory) ==
    LET bp == EditingPath(s)
        block == ObjAt(s.level.root, bp)
    IN IF type = "floor" /\ hasFloor(block, x, y) THEN s
       ELSE IF type # "floor" /\ hasNonFloor(block, x, y) THEN s
       ELSE LET s1 == IF saveHistory THEN saveToHistory(s) ELSE s
            IN PushChild(s1, bp, NewObject(s1, type, x, y))

deleteAtPositionXY(s, x, y, saveHistory) ==
    LET bp == EditingPath(s)
        block == ObjAt(s.level.root, bp)
        idx == FindIndex(block.children,
                   LAMBDA obj : StrictEq(obj.x, x) /\ StrictEq(obj.y, y)
                                   /\ obj.type # "Floor")
    IN IF idx < 0 THEN s
       ELSE LET s1 == IF saveHistory THEN saveToHistory(s) ELSE s
            IN SpliceChild(s1, bp, idx)

pasteAtPositionXY(s, x, y, saveHistory) ==
    IF s.clipboard = NULL THEN s
    ELSE LET bp == EditingPath(s)
             block == ObjAt(s.level.root, bp)
         IN IF hasNonFloor(block, x, y) /\ s.clipboard.type # "Floor" THEN s
            ELSE LET s1 == IF saveHistory THEN saveToHistory(s) ELSE s
                 IN PushChild(s1, bp, Pasted(s1, x, y))

(***************************************************************************)
(* Validation                                                              *)
(***************************************************************************)
\* A warning: its fixed wording, the ids of the Blocks above the object it
\* is about (the path prefix of the message), the cell of the object (for
\* a Ref) and the id named in the message.
Warning(message, location, at, id) ==
    [message |-> message, location |-> location, at |-> at, id |-> id]

NoPlayerWarning ==
    Warning("Level has no player block (a block with player=1)",
            <<>>, <<>>, <<>>)
NoPlayerButtonWarning ==
    Warning("Level has no PlayerButton (goal)", <<>>, <<>>, <<>>)

\* validateLevel that never looks at the Refs.
validateLevelNoRefs(s) ==
    LET root == s.level.root
        paths == ObjPaths(root, <<>>)
        obj(p) == ObjAt(root, p)
        location(p) == [i \in 1 .. Len(p) |-> obj(SubSeq(p, 1, i - 1)).id]
        boxes == SelectSeq(paths,
                     LAMBDA p : /\ obj(p).type = "Block"
                                /\ StrictEq(obj(p).fillwithwalls, 1)
                                /\ Len(obj(p).children) > 0)
        hasPlayer == \E i \in DOMAIN paths :
                         /\ obj(paths[i]).type = "Block"
                         /\ StrictEq(obj(paths[i]).player, 1)
        hasPlayerButton == \E i \in DOMAIN paths :
                               /\ obj(paths[i]).type = "Floor"
                               /\ obj(paths[i]).floorType = <<"PlayerButton">>
    IN [i \in DOMAIN boxes |->
            Warning("is a Box (fillwithwalls=1) but has children",
                    location(boxes[i]), <<>>, <<obj(boxes[i]).id>>)] \o
       (IF ~hasPlayer THEN <<NoPlayerWarning>> ELSE <<>>) \o
       (IF ~hasPlayerButton THEN <<NoPlayerButtonWarning>> ELSE <<>>)

\* validateLevel(): the warnings in the order they are pushed.  checkObjects
\* visits the tree in pre-order and pushes the Box warnings as it goes; the
\* warnings for the Refs come last, in the order the Refs were visited.
validateLevel(s) ==
    LET root == s.level.root
        paths == ObjPaths(root, <<>>)
        obj(p) == ObjAt(root, p)
        location(p) == [i \in 1 .. Len(p) |-> obj(SubSeq(p, 1, i - 1)).id]
        blockIds == {obj(paths[i]).id :
                        i \in {j \in DOMAIN paths :
                                  obj(paths[j]).type = "Block"}}
        boxes == SelectSeq(paths,
                     LAMBDA p : /\ obj(p).type = "Block"
                                /\ StrictEq(obj(p).fillwithwalls, 1)
                                /\ Len(obj(p).children) > 0)
        hasPlayer == \E i \in DOMAIN paths :
                         /\ obj(paths[i]).type = "Block"
                         /\ StrictEq(obj(paths[i]).player, 1)
        hasPlayerButton == \E i \in DOMAIN paths :
                               /\ obj(paths[i]).type = "Floor"
                               /\ obj(paths[i]).floorType = <<"PlayerButton">>
        orphans == SelectSeq(paths,
                       LAMBDA p : /\ obj(p).type = "Ref"
                                  /\ obj(p).id \notin blockIds)
    IN [i \in DOMAIN boxes |->
            Warning("is a Box (fillwithwalls=1) but has children",
                    location(boxes[i]), <<>>, <<obj(boxes[i]).id>>)] \o
       (IF ~hasPlayer THEN <<NoPlayerWarning>> ELSE <<>>) \o
       (IF ~hasPlayerButton THEN <<NoPlayerButtonWarning>> ELSE <<>>) \o
       [i \in DOMAIN orphans |->
            Warning("references non-existent Block",
                    location(orphans[i]),
                    <<obj(orphans[i]).x, obj(orphans[i]).y>>,
                    <<obj(orphans[i]).id>>)]

(***************************************************************************)
(* The state machine: one action per handler of the store.                 *)
(***************************************************************************)
\* The store becomes t.
Step(t) ==
    /\ level' = t.level
    /\ selectedPath' = t.selectedPath
    /\ selectedObject' = t.selectedObject
    /\ selectedPosition' = t.selectedPosition
    /\ clipboard' = t.clipboard
    /\ editingBlockId' = t.editingBlockId
    /\ tool' = t.tool
    /\ floorToolType' = t.floorToolType
    /\ refToolIsExit' = t.refToolIsExit
    /\ refToolTargetId' = t.refToolTargetId
    /\ undoStack' = t.undoStack
    /\ redoStack' = t.redoStack
    /\ threw' = t.threw
    /\ importResult' = t.importResult

\* The store is s.
StoreIs(s) ==
    /\ level = s.level
    /\ selectedPath = s.selectedPath
    /\ selectedObject = s.selectedObject
    /\ selectedPosition = s.selectedPosition
    /\ clipboard = s.clipboard
    /\ editingBlockId = s.editingBlockId
    /\ tool = s.tool
    /\ floorToolType = s.floorToolType
    /\ refToolIsExit = s.refToolIsExit
    /\ refToolTargetId = s.refToolTargetId
    /\ undoStack = s.undoStack
    /\ redoStack = s.redoStack
    /\ threw = s.threw
    /\ importResult = s.importResult

Init == StoreIs(initialState)

\* Guards that keep the model finite.
RoomInHistory == Len(undoStack) + Len(redoStack) < MaxHist
MoveRange == (0 - 1) .. (MaxCoord + 1)
Moves == {<<1, 0>>, <<0 - 1, 0>>, <<0, 1>>, <<0, 0 - 1>>}
CanMove(m) ==
    /\ selectedObject # NULL
    /\ JsAdd(Deref(St).x, m[1]) \in MoveRange
    /\ JsAdd(Deref(St).y, m[2]) \in MoveRange

\* The paths selectObject is called with: null, and the paths of one or
\* two indices that lead from the editing Block to an object.
SelectablePaths ==
    LET bp == EditingPath(St)
        ps == ObjPaths(getEditingBlock(St), <<>>)
    IN {NoPath} \cup {ps[i] : i \in {j \in DOMAIN ps : Len(ps[j]) = 1}}

Tools == {"select", "wall"}
BlockIdInputs == 0 .. MaxBlockId

Undo == Step(undo(St))
Redo == Step(redo(St))
NewLevel == Step(newLevel(St))
SetTool == \E t \in Tools : Step(setTool(St, t))
SetFloorToolType ==
    \E t \in {<<"Button">>, <<"PlayerButton">>} : Step(setFloorToolType(St, t))
SetRefToolTargetId ==
    \E id \in BlockIdInputs : Step(setRefToolTargetId(St, id))
EnterBlock == \E id \in BlockIdInputs : Step(enterBlock(St, id))
EnterBlockFromTree ==
    \E id \in BlockIdInputs : Step(enterBlockFromTree(St, id))
ExitToParent == Step(exitToParent(St))
SelectObject == \E path \in SelectablePaths : Step(selectObject(St, path))
ClearSelection == Step(clearSelection(St))
SelectPosition == \E c \in Cells : Step(selectPosition(St, c[1], c[2]))
CreateObjectAtPosition ==
    /\ RoomInHistory
    /\ \E type \in ObjectTypes : Step(createObjectAtPosition(St, type))
AddObject ==
    /\ RoomInHistory
    /\ \E c \in Cells : Step(addObject(St, c[1], c[2]))
DeleteSelected == RoomInHistory /\ Step(deleteSelected(St))
MoveSelected == \E m \in Moves : CanMove(m) /\ Step(moveSelected(St, m[1], m[2]))
MoveSelectedWithHistory ==
    /\ RoomInHistory
    /\ \E m \in Moves :
          CanMove(m) /\ Step(moveSelectedWithHistory(St, m[1], m[2]))
CopySelected == Step(copySelected(St))
CutSelected == RoomInHistory /\ Step(cutSelected(St))
Paste ==
    /\ clipboard # NULL /\ RoomInHistory
    /\ Step(paste(St))
PlaceObjectAtSelection ==
    /\ RoomInHistory
    /\ \E type \in ObjectTypes : Step(placeObjectAtSelection(St, type))
PlaceObjectAtPositionXY ==
    /\ RoomInHistory
    /\ \E c \in Cells, type \in ObjectTypes :
          Step(placeObjectAtPositionXY(St, c[1], c[2], type, TRUE))
DeleteAtPositionXY ==
    /\ RoomInHistory
    /\ \E c \in Cells : Step(deleteAtPositionXY(St, c[1], c[2], TRUE))
PasteAtPositionXY ==
    /\ clipboard # NULL /\ RoomInHistory
    /\ \E c \in Cells : Step(pasteAtPositionXY(St, c[1], c[2], TRUE))

Next ==
    \/ Undo \/ Redo
    \/ EnterBlock \/ EnterBlockFromTree \/ ExitToParent
    \/ SelectObject \/ ClearSelection \/ SelectPosition
    \/ CreateObjectAtPosition \/ AddObject \/ DeleteSelected
    \/ MoveSelectedWithHistory
    \/ CopySelected \/ CutSelected \/ Paste
    \/ PlaceObjectAtSelection \/ PlaceObjectAtPositionXY
    \/ DeleteAtPositionXY \/ PasteAtPositionXY
    \/ SetTool

Spec == Init /\ [][Next]_vars

(***************************************************************************)
(* Clipboard work on a document that holds a Block with a Ref and a box    *)
(* inside it.  The document is built by the drag handlers, which record no *)
(* history: a Block (id 2) is placed in the root and entered; the Ref tool *)
(* is aimed at target; a Ref and a box (id 3) are placed in it, in either  *)
(* order; the root is entered again.                                       *)
(***************************************************************************)
RefTargets == {0, 2, 3}

BuiltState(target, refFirst) ==
    LET s1 == placeObjectAtPositionXY(initialState, 2, 2, "block", FALSE)
        s2 == setRefToolTargetId(enterBlock(s1, 2), target)
        s3 == IF refFirst
              THEN placeObjectAtPositionXY(s2, 0, 0, "ref", FALSE)
              ELSE placeObjectAtPositionXY(s2, 1, 1, "box", FALSE)
        s4 == IF refFirst
              THEN placeObjectAtPositionXY(s3, 1, 1, "box", FALSE)
              ELSE placeObjectAtPositionXY(s3, 0, 0, "ref", FALSE)
    IN enterBlock(s4, 0)

InitBuilt ==
    \E target \in RefTargets, refFirst \in BOOLEAN :
        StoreIs(BuiltState(target, refFirst))

\* The behaviours end with the edit that fills the history.
NextClip ==
    \/ RoomInHistory /\ SelectObject
    \/ RoomInHistory /\ SelectPosition
    \/ RoomInHistory /\ EnterBlock
    \/ RoomInHistory /\ EnterBlockFromTree
    \/ RoomInHistory /\ CopySelected
    \/ CutSelected \/ Paste \/ PasteAtPositionXY \/ DeleteSelected

SpecClip == InitBuilt /\ [][NextClip]_vars

(***************************************************************************)
(* Documents for the text codec: the handlers that insert, paste, delete,  *)
(* cut, move and resize, at work on the documents built above.             *)
(***************************************************************************)
BlockSizes == {<<2, 2>>}

UpdateBlockSize ==
    \E size \in BlockSizes : Step(updateBlockSize(St, size[1], size[2]))

\* The behaviours end with the edit that fills the history.
NextDoc ==
    \/ RoomInHistory /\ SelectObject
    \/ RoomInHistory /\ EnterBlock
    \/ RoomInHistory /\ CopySelected
    \/ RoomInHistory /\ UpdateBlockSize
    \/ RoomInHistory /\ SetFloorToolType
    \/ PlaceObjectAtPositionXY \/ DeleteAtPositionXY \/ PasteAtPositionXY
    \/ CutSelected \/ MoveSelectedWithHistory

SpecDoc == InitBuilt /\ [][NextDoc]_vars

(***************************************************************************)
(* Headers and info texts for the text codec: the header fields are set    *)
(* and unset with updateHeader, a Floor is given an info text through the  *)
(* selection, and level texts are imported, the text exportLevel gives for *)
(* the current document among them.                                        *)
(***************************************************************************)
\* The updates updateHeader is called with: one field, set or unset.
HeaderUpdates ==
    {[k \in {"version"} |-> v] : v \in {4, 5}} \cup
    {[k \in {"comment"} |-> v] : v \in {<<>>, <<<<"a", " ", "b">>>>}} \cup
    {[k \in {"shed"} |-> v] : v \in {<<>>, <<TRUE>>, <<FALSE>>}} \cup
    {[k \in {"innerPush"} |-> v] : v \in {<<>>, <<TRUE>>}} \cup
    {[k \in {"drawStyle"} |-> v] : v \in {<<>>, <<"tui">>}} \cup
    {[k \in {"attemptOrder"} |-> v] : v \in {<<>>, <<<<"push,enter">>>>}} \cup
    {[k \in {"customLevelMusic"} |-> v] : v \in {<<>>, <<0>>}} \cup
    {[k \in {"customLevelPalette"} |-> v] : v \in {<<>>, <<1>>}}

\* The info texts a Floor is given: one with a space, one with a newline.
InfoTexts == {<<"a", " ", "b">>, <<"a", "\n", "b">>}

\* A level text with an Info Floor that carries a text: the default
\* document followed by the line  <tab>Floor 1 1 Info a_b\nc .
InfoLevelText ==
    serializeLevel(createDefaultLevel) \o
        <<"\n", "\t", "Floor", " ", "1", " ", "1", " ", "Info", " ",
          "a", "_", "b", "\\", "n", "c">>

UpdateHeader == \E updates \in HeaderUpdates : Step(updateHeader(St, updates))
ImportLevel ==
    \E text \in {InfoLevelText, exportLevel(St)} : Step(importLevel(St, text))
UpdateFloorType ==
    /\ selectedObject # NULL /\ Deref(St).type = "Floor"
    /\ Step(updateSelectedProperty(St, "floorType", <<"Info">>))
UpdateInfoText ==
    /\ selectedObject # NULL /\ Deref(St).type = "Floor"
    /\ \E text \in InfoTexts :
          Step(updateSelectedProperty(St, "infoText", <<text>>))

NextCodec ==
    \/ UpdateHeader \/ ImportLevel
    \/ SelectObject \/ UpdateFloorType \/ UpdateInfoText

SpecCodec == Init /\ [][NextCodec]_vars

(***************************************************************************)
(* Deep histories: the player Block is selected, moveSelectedWithHistory   *)
(* shuttles it between two cells, and undo and redo walk the history.  No  *)
(* guard bounds the stacks: the handlers bound them.                       *)
(***************************************************************************)
ShuttleCells == {1, 2}

InitHist == StoreIs(selectObject(initialState, <<0>>))

Shuttle ==
    \E dx \in {1, 0 - 1} :
        /\ selectedObject # NULL
        /\ JsAdd(Deref(St).x, dx) \in ShuttleCells
        /\ Step(moveSelectedWithHistory(St, dx, 0))

NextHist == Shuttle \/ Undo \/ Redo

SpecHist == InitHist /\ [][NextHist]_vars

(***************************************************************************)
(* Imports of well-formed and of malformed level texts into a store with a *)
(* selection, a clipboard, an entered Block and a history.  A text is made *)
(* of at most MaxLines of the lines below.                                 *)
(***************************************************************************)
MaxLines == 3

VersionLine == <<"version", " ", "4">>
SeparatorLine == <<"#">>
CommentedSeparator == <<"#", " ", "(", "objects", ")">>
RootLine == serializeBlock(createBlock(0, 0 - 1, 0 - 1, 5, 5, 0))
WallLine == serializeWall(createWall(0, 0))
FloorLine == serializeFloor(createFloor(1, 1, <<"Button">>, <<>>))
RefLine == serializeRef(createRef(2, 2, 0, FALSE))
NestedWallLine == <<"\t">> \o WallLine

SeparatorLines == {SeparatorLine, CommentedSeparator}
OrphanLines == {WallLine, FloorLine, RefLine}
ImportLines ==
    {VersionLine, RootLine, NestedWallLine, WallLine} \cup SeparatorLines

LineSeqs == UNION {[1 .. n -> ImportLines] : n \in 0 .. MaxLines}

TextOf(ls) == Join(ls, <<"\n">>)

ImportText == \E ls \in LineSeqs : Step(importLevel(St, TextOf(ls)))

\* A level text whose root Block has an id other than 0, with a Wall in it.
RenumberedRootLine == serializeBlock(createBlock(3, 0 - 1, 0 - 1, 5, 5, 0))
RenumberedText == TextOf(<<SeparatorLine, RenumberedRootLine, NestedWallLine>>)

ImportRenumbered == Step(importLevel(St, RenumberedText))

\* The behaviours end with the edit that fills the history, and with the
\* imports after it.
NextImport ==
    \/ ImportText \/ ImportRenumbered
    \/ RoomInHistory /\ SelectObject
    \/ RoomInHistory /\ CopySelected
    \/ RoomInHistory /\ EnterBlock
    \/ DeleteAtPositionXY

InitImport == StoreIs(BuiltState(2, TRUE))

SpecImport == InitImport /\ [][NextImport]_vars

(***************************************************************************)
(* Level texts grown line by line: the text of the current document is     *)
(* imported with one more object line at its end, a Wall or a Block at any *)
(* depth from 1 to MaxDepth, until the document holds MaxObjects objects.  *)
(***************************************************************************)
MaxDepth == 4
MaxObjects == 9

\* The object lines added: depth is the number of tabs before the object.
NestedLines ==
    [depth : 1 .. MaxDepth,
     obj : {createWall(3, 3), createBlock(7, 4, 4, 3, 3, 0)}]

\* The text of the document of s with the line a at its end.
WithLine(text, a) ==
    text \o <<"\n">> \o Indent(a.depth) \o serializeObject(a.obj)

ImportAppended ==
    /\ CountObjects(level.root) < MaxObjects
    /\ \E a \in NestedLines :
          Step(importLevel(St, WithLine(exportLevel(St), a)))

NextNest == ImportAppended

SpecNest == InitImport /\ [][NextNest]_vars

(***************************************************************************)
(* Selections made in the tree panel: a click on an object that is no      *)
(* Block calls selectObject with the path of the object from the root, a   *)
(* click on a Block enters it.  The drag eraser deletes without a          *)
(* snapshot.                                                               *)
(***************************************************************************)
TreePaths ==
    LET ps == ObjPaths(level.root, <<>>)
    IN {ps[i] : i \in {j \in DOMAIN ps :
                          ObjAt(level.root, ps[j]).type # "Block"}}

SelectFromTree == \E path \in TreePaths : Step(selectObject(St, path))

EraseAtPositionXY ==
    \E c \in Cells : Step(deleteAtPositionXY(St, c[1], c[2], FALSE))

NextTree ==
    \/ SelectFromTree \/ EnterBlockFromTree \/ EraseAtPositionXY
    \/ DeleteSelected \/ Undo \/ Redo

SpecTree == InitBuilt /\ [][NextTree]_vars

(***************************************************************************)
(* Properties of the editing handlers, under Spec                          *)
(***************************************************************************)
\* The Block ids of a tree are pairwise distinct.
DistinctIds(root) ==
    LET ids == BlockIdSeq(root)
    IN \A i, j \in DOMAIN ids : i # j => ids[i] # ids[j]

\* C1: in every state reached by inserts, pastes, delete, cut, copy, undo
\* and redo, the Block ids of the document are pairwise distinct, and they
\* still are after one more insert of a Block or one more paste: an
\* inserted Block, a pasted Block and the Blocks nested in it get ids no
\* Block of the document has.
BlockIdsDistinct ==
    /\ DistinctIds(level.root)
    /\ \A c \in Cells, type \in {"block", "box"} :
          DistinctIds(
              placeObjectAtPositionXY(St, c[1], c[2], type, FALSE).level.root)
    /\ \A c \in Cells :
          DistinctIds(pasteAtPositionXY(St, c[1], c[2], FALSE).level.root)

\* A Block that holds a Block has been pasted: the root holds a Block that
\* is not one of the default document and that holds a Block, and an
\* insert adds an empty Block.
NestedBlockPasted ==
    \E i \in DOMAIN level.root.children :
        LET child == level.root.children[i]
        IN /\ child.type = "Block"
           /\ child.id \notin BlockIds(createDefaultLevel.root)
           /\ \E j \in DOMAIN child.children :
                 child.children[j].type = "Block"

\* The cells of block that hold one of its children.
OccupiedCells(block) ==
    {<<block.children[i].x, block.children[i].y>> :
        i \in DOMAIN block.children}

NonFloorTypes == ObjectTypes \ {"floor"}

\* C5: inserting a Block, Wall or Ref at a cell of the editing Block that
\* holds a non-Floor child leaves the document unchanged, whichever insert
\* handler is used.
InsertDeclinedWhenOccupied ==
    LET block == getEditingBlock(St)
    IN \A c \in OccupiedCells(block), type \in NonFloorTypes :
          hasNonFloor(block, c[1], c[2]) =>
            /\ addObject(setTool(St, type), c[1], c[2]).level = level
            /\ createObjectAtPosition(
                   selectPosition(St, c[1], c[2]), type).level = level
            /\ placeObjectAtSelection(
                   selectPosition(St, c[1], c[2]), type).level = level
            /\ placeObjectAtPositionXY(St, c[1], c[2], type, TRUE).level
                   = level

\* No cell of block holds two non-Floor children or two Floor children.
CellsHoldOneOfEach(block) ==
    \A i, j \in DOMAIN block.children :
        LET a == block.children[i]
            b == block.children[j]
        IN (i # j /\ a.x = b.x /\ a.y = b.y) =>
               (a.type = "Floor") # (b.type = "Floor")

\* C6: in every state reached by insert, paste, delete, cut, selection,
\* undo and redo, every cell of every Block holds at most one non-Floor
\* child and at most one Floor child.
OneObjectPerCell ==
    LET bps == BlockPaths(level.root)
    IN \A k \in DOMAIN bps : CellsHoldOneOfEach(ObjAt(level.root, bps[k]))

\* C10: after a history-recording mutation, undo followed by redo gives
\* back the document, field for field, and the contents of both stacks.
UndoRedoRestores ==
    undoStack # <<>> =>
        LET s2 == redo(undo(St))
        IN /\ s2.level = level
           /\ s2.undoStack = undoStack
           /\ s2.redoStack = redoStack

\* A mutation has just been recorded and has changed the document: undo
\* leads to another document.
MutationRecorded ==
    /\ undoStack # <<>> /\ redoStack = <<>>
    /\ undo(St).level # level
    /\ redo(undo(St)).level = level

(***************************************************************************)
(* Properties of the clipboard, under SpecClip                             *)
(***************************************************************************)
\* C7: pasting a Floor onto a cell that holds a Floor, or a non-Floor onto
\* a cell that holds a non-Floor, leaves the document unchanged, with
\* paste and with pasteAtPositionXY.
PasteDeclinedWhenOccupied ==
    clipboard # NULL =>
        LET block == getEditingBlock(St)
        IN \A c \in OccupiedCells(block) :
              (IF clipboard.type = "Floor" THEN hasFloor(block, c[1], c[2])
               ELSE hasNonFloor(block, c[1], c[2])) =>
                /\ paste(selectPosition(St, c[1], c[2])).level = level
                /\ \A saveHistory \in BOOLEAN :
                      pasteAtPositionXY(St, c[1], c[2], saveHistory).level
                          = level

\* The states copySelected followed by paste leads to from s, the paste
\* made at the selection or at a cell selected in between.
CopyPasteStates(s) ==
    LET s1 == copySelected(s)
    IN {paste(s1)} \cup
       {paste(selectPosition(s1, c[1], c[2])) : c \in Cells}

\* The states one mutation of the selected object leads to from s: a move,
\* a resize, a recolour, a property edit and, for a Block, an insert into
\* it and a delete from it.
SelectionMutations(s) ==
    {moveSelected(s, m[1], m[2]) : m \in Moves} \cup
    {updateBlockSize(s, 2, 2), updateBlockColor(s, 10, 20, 30),
     updateSelectedProperty(s, "player", 1)} \cup
    (IF Deref(s).type = "Block"
     THEN LET inside == enterBlock(s, Deref(s).id)
          IN {placeObjectAtPositionXY(inside, c[1], c[2], "wall", FALSE) :
                  c \in Cells} \cup
             {deleteAtPositionXY(inside, c[1], c[2], FALSE) : c \in Cells}
     ELSE {})

\* The path of the last child of the editing Block, where paste puts the
\* copy.
LastChildPath(s) ==
    Append(EditingPath(s), Len(getEditingBlock(s).children) - 1)

\* C8 as amended: after copySelected of an object x of the document and a
\* paste, a mutation of the pasted copy leaves the clipboard unchanged and
\* changes nothing of the document outside the pasted copy; x and its
\* subtree are unchanged when the copy was not pasted inside x.
PasteIsolation ==
    (selectedObject # NULL /\ selectedObject.ref = "live") =>
        \A s2 \in CopyPasteStates(St) :
            s2.level # level =>
                \A s3 \in SelectionMutations(s2) :
                    /\ s3.clipboard = s2.clipboard
                    /\ ReplaceAt(s3.level.root, LastChildPath(s2),
                           ObjAt(s2.level.root, LastChildPath(s2)))
                           = s2.level.root
                    /\ ~IsPrefix(selectedObject.path, LastChildPath(s2)) =>
                           ObjAt(s3.level.root, selectedObject.path)
                               = ObjAt(s2.level.root, selectedObject.path)

\* C8 as stated: after copySelected of an object x of the document and a
\* paste, a mutation of the pasted copy leaves x, its subtree and the
\* clipboard unchanged.
PasteLeavesOriginal ==
    (selectedObject # NULL /\ selectedObject.ref = "live") =>
        \A s2 \in CopyPasteStates(St) :
            s2.level # level =>
                \A s3 \in SelectionMutations(s2) :
                    /\ s3.clipboard = s2.clipboard
                    /\ ObjAt(s3.level.root, selectedObject.path)
                           = ObjAt(s2.level.root, selectedObject.path)

\* A copy of the clipboard has just been pasted and is selected: it is the
\* last child of the editing Block, and the document has grown by it.
PastedCopySelected ==
    /\ undoStack # <<>> /\ clipboard # NULL
    /\ selectedObject = Live(LastChildPath(St))
    /\ Deref(St).type = clipboard.type
    /\ CountObjects(Deref(St)) = CountObjects(clipboard)
    /\ CountObjects(level.root) =
           CountObjects(Last(undoStack).level.root) + CountObjects(clipboard)
    /\ \E s3 \in SelectionMutations(St) : s3.level # level

\* C9: when a Block subtree is pasted, a Ref of the subtree whose target is
\* the id of a Block of the subtree (before it, after it, or the root of
\* the subtree) gets the id the pasted copy of that Block gets, an id no
\* Block of the document has.
PasteRemapsInnerRefs ==
    (clipboard # NULL /\ clipboard.type = "Block") =>
        \A c \in Cells :
            LET pasted == Pasted(St, c[1], c[2])
                rps == RefPaths(clipboard)
                bps == BlockPaths(clipboard)
            IN \A r \in DOMAIN rps, b \in DOMAIN bps :
                  ObjAt(clipboard, rps[r]).id = ObjAt(clipboard, bps[b]).id =>
                    /\ ObjAt(pasted, rps[r]).id = ObjAt(pasted, bps[b]).id
                    /\ ObjAt(pasted, bps[b]).id \notin BlockIds(level.root)

\* A Block subtree with a Ref to one of its own Blocks has been pasted:
\* the document holds a Ref whose target is a Block of the document and is
\* none of the targets the Ref tool was aimed at.
InnerRefPasted ==
    LET rps == RefPaths(level.root)
    IN \E r \in DOMAIN rps :
          /\ ObjAt(level.root, rps[r]).id \notin RefTargets
          /\ ObjAt(level.root, rps[r]).id \in BlockIds(level.root)

(***************************************************************************)
(* Properties of the text codec                                            *)
(***************************************************************************)
\* C2: for every document the insert, paste, delete, cut, move and resize
\* handlers lead to, parsing the serialized document gives back the same
\* tree: the same objects with the same fields, nesting and child order.
TreeRoundTrip ==
    LET parsed == parseLevel(serializeLevel(level))
    IN parsed.ok /\ parsed.level.root = level.root

\* An edit has been made to a document in which a Block with children of
\* its own is followed by a later child of the root.
EditedNestedDocument ==
    /\ undoStack # <<>>
    /\ \E i \in DOMAIN level.root.children :
          /\ level.root.children[i].type = "Block"
          /\ level.root.children[i].children # <<>>
          /\ i < Len(level.root.children)

\* C3: for every Floor of floorType Info that has an info text, spaces and
\* newlines included, parsing the serialized document gives a Floor at the
\* same place and position with the same info text.
InfoTextRoundTrip ==
    LET parsed == parseLevel(serializeLevel(level))
        ps == ObjPaths(level.root, <<>>)
    IN /\ parsed.ok
       /\ \A i \in DOMAIN ps :
             LET obj == ObjAt(level.root, ps[i])
                 back == ObjAt(parsed.level.root, ps[i])
             IN (/\ obj.type = "Floor"
                 /\ obj.floorType = <<"Info">>
                 /\ obj.infoText # <<>>) =>
                    /\ back.type = "Floor"
                    /\ back.x = obj.x /\ back.y = obj.y
                    /\ back.infoText = obj.infoText

\* C4: for every header updateHeader leads to, parsing the serialized
\* document gives back the header, field for field.
HeaderRoundTrip ==
    LET parsed == parseLevel(serializeLevel(level))
    IN parsed.ok /\ parsed.level.header = level.header

(***************************************************************************)
(* Properties of the history, under Spec                                   *)
(***************************************************************************)
\* The stores the handlers that call saveToHistory lead to from s.
RecordingEdits(s) ==
    {createObjectAtPosition(s, type) : type \in ObjectTypes} \cup
    {addObject(setTool(s, type), c[1], c[2]) :
        type \in ObjectTypes \ {"box"}, c \in Cells} \cup
    {placeObjectAtSelection(s, type) : type \in ObjectTypes} \cup
    {placeObjectAtPositionXY(s, c[1], c[2], type, TRUE) :
        type \in ObjectTypes, c \in Cells} \cup
    {deleteAtPositionXY(s, c[1], c[2], TRUE) : c \in Cells} \cup
    {pasteAtPositionXY(s, c[1], c[2], TRUE) : c \in Cells} \cup
    {moveSelectedWithHistory(s, m[1], m[2]) : m \in Moves} \cup
    {deleteSelected(s), cutSelected(s), paste(s)}

\* The stores the handlers that change the document without a call of
\* saveToHistory lead to from s.
SilentEdits(s) ==
    {placeObjectAtPositionXY(s, c[1], c[2], type, FALSE) :
        type \in ObjectTypes, c \in Cells} \cup
    {deleteAtPositionXY(s, c[1], c[2], FALSE) : c \in Cells} \cup
    {pasteAtPositionXY(s, c[1], c[2], FALSE) : c \in Cells} \cup
    {moveSelected(s, m[1], m[2]) : m \in Moves} \cup
    {updateBlockSize(s, size[1], size[2]) : size \in BlockSizes} \cup
    {updateEditingBlockSize(s, size[1], size[2]) : size \in BlockSizes} \cup
    {updateHeader(s, updates) : updates \in HeaderUpdates} \cup
    {updateBlockColor(s, 50, 50, 50), updateEditingBlockColor(s, 50, 50, 50),
     updateSelectedProperty(s, "player", 1),
     updateEditingBlockProperty(s, "fliph", 1),
     updateHeaderProperty(s, "version", 5)}

\* C11: whenever an operation changes the document (insert, delete, cut,
\* paste, move, resize, recolor, updateSelectedProperty, updateHeader, the
\* drag variants called with saveHistory = false), undo() right after it
\* restores the document as it was before the operation.
UndoRestoresBeforeEdit ==
    \A t \in RecordingEdits(St) \cup SilentEdits(St) :
        t.level # level => undo(t).level = level

\* C12: after newLevel, and after an importLevel that succeeds, the undo
\* stack and the redo stack are empty.
ReplaceClearsHistory ==
    /\ newLevel(St).undoStack = <<>> /\ newLevel(St).redoStack = <<>>
    /\ LET t == importLevel(St, serializeLevel(createDefaultLevel))
       IN t.importResult.success =>
              t.undoStack = <<>> /\ t.redoStack = <<>>

RECURSIVE UndoTimes(_, _)
\* k consecutive undo() calls; each call returns before the next one starts.
UndoTimes(s, k) ==
    IF k > 0 /\ DOMAIN s # {} THEN UndoTimes(undo(s), k - 1) ELSE s

\* C15: undo() with an empty undo stack and redo() with an empty redo stack
\* change nothing (document, stacks, selection); more undo() calls than
\* there are snapshots end, without an exception, on the oldest snapshot
\* with the undo stack empty.
EmptyHistoryNoOp ==
    /\ undoStack = <<>> => undo(St) = St
    /\ redoStack = <<>> => redo(St) = St
    /\ \A k \in (Len(undoStack) + 1) .. (Len(undoStack) + 2) :
          LET t == UndoTimes(St, k)
          IN /\ ~t.threw
             /\ t.undoStack = <<>>
             /\ t.level = IF undoStack = <<>> THEN level
                          ELSE undoStack[1].level

\* Every snapshot has been undone: one more undo() finds the stack empty.
UndoneToOldest == undoStack = <<>> /\ redoStack # <<>>

(***************************************************************************)
(* Properties of the history, under SpecHist                               *)
(***************************************************************************)
\* C13: the undo stack and the redo stack hold at most 50 snapshots each;
\* a mutation recorded when the undo stack is full evicts the oldest
\* snapshot, and 50 undos then end on the second oldest document, not on
\* the evicted one.
HistoryBounded ==
    /\ Len(undoStack) <= HistoryLimit
    /\ Len(redoStack) <= HistoryLimit
    /\ Len(undoStack) = HistoryLimit =>
          \A t \in RecordingEdits(St) :
              t.level # level =>
                  /\ t.undoStack = Append(Tail(undoStack), HistoryEntry(St))
                  /\ UndoTimes(t, HistoryLimit).undoStack = <<>>
                  /\ UndoTimes(t, HistoryLimit).level = undoStack[2].level
                  /\ UndoTimes(t, HistoryLimit).level # undoStack[1].level

\* The undo stack is full and its oldest snapshot is no longer the initial
\* document: a 51st snapshot has been recorded.
OldestEvicted ==
    /\ Len(undoStack) = HistoryLimit
    /\ undoStack[1].level # createDefaultLevel

\* The numbers of consecutive mutations that are walked back and forth.
ChainLengths == {1, 2, HistoryLimit}

\* One history-recording mutation: the selected object moves to the other
\* shuttle cell.
ShuttleEdit(s) ==
    moveSelectedWithHistory(s, IF Deref(s).x = 1 THEN 1 ELSE 0 - 1, 0)

RECURSIVE EditTimes(_, _)
EditTimes(s, n) ==
    IF n > 0 /\ DOMAIN s # {} THEN EditTimes(ShuttleEdit(s), n - 1) ELSE s

RECURSIVE DocsOfEdits(_, _)
\* The documents D0 .. D(n-1) that n consecutive mutations start from.
DocsOfEdits(s, n) ==
    IF n = 0 THEN <<>>
    ELSE <<s.level>> \o DocsOfEdits(ShuttleEdit(s), n - 1)

RECURSIVE UndoVisits(_, _)
\* The documents that n consecutive undo() calls visit.
UndoVisits(s, n) ==
    IF n = 0 THEN <<>>
    ELSE <<undo(s).level>> \o UndoVisits(undo(s), n - 1)

RECURSIVE RedoTimes(_, _)
RedoTimes(s, k) ==
    IF k > 0 /\ DOMAIN s # {} THEN RedoTimes(redo(s), k - 1) ELSE s

Reverse(seq) == [i \in 1 .. Len(seq) |-> seq[Len(seq) + 1 - i]]

\* C14: n <= 50 consecutive history-recording mutations from a document D0,
\* then n undo() calls, visit the documents the mutations started from in
\* reverse order and end on D0; n redo() calls then restore the final
\* document.
UndoRedoWalk ==
    \A n \in ChainLengths :
        LET t == EditTimes(St, n)
        IN /\ UndoVisits(t, n) = Reverse(DocsOfEdits(St, n))
           /\ UndoTimes(t, n).level = level
           /\ RedoTimes(UndoTimes(t, n), n).level = t.level

\* Fifty mutations have been undone, back to the initial document.
WalkedBack ==
    /\ Len(redoStack) = HistoryLimit /\ undoStack = <<>>
    /\ level = createDefaultLevel

\* C16: a mutation that records history empties the redo stack, so that
\* redo() right after it changes nothing.
RecordingClearsRedo ==
    \A t \in RecordingEdits(St) :
        t.level # level => t.redoStack = <<>> /\ redo(t) = t

\* An undo() has left a document on the redo stack, and a mutation is
\* recorded from there.
EditAfterUndo ==
    /\ redoStack # <<>>
    /\ \E t \in RecordingEdits(St) : t.level # level

(***************************************************************************)
(* Properties of importLevel and parseLevel, under SpecImport              *)
(***************************************************************************)
\* The text has no separator line.
NoSeparator(ls) == \A i \in DOMAIN ls : ls[i] \notin SeparatorLines

\* The text has a separator line and no depth-0 Block line after the first
\* one.
NoRoot(ls) ==
    \E i \in DOMAIN ls :
        /\ ls[i] \in SeparatorLines
        /\ \A j \in 1 .. (i - 1) : ls[j] \notin SeparatorLines
        /\ \A j \in (i + 1) .. Len(ls) : ls[j] # RootLine

\* The store after an import that failed is the store s before it, but for
\* the result returned.
Untouched(s, t) ==
    /\ ~t.importResult.success
    /\ [t EXCEPT !.importResult = s.importResult] = s

\* C17: importLevel of a text that does not parse returns a failure and
\* leaves the document, the editing Block, the selection, the clipboard and
\* both history stacks as they were.
FailedImportChangesNothing ==
    \A ls \in LineSeqs :
        NoSeparator(ls) \/ NoRoot(ls) =>
            Untouched(St, importLevel(St, TextOf(ls)))

\* An import has failed in a store that holds a selection, a clipboard, an
\* entered Block and a snapshot.
ImportFailedInBusyStore ==
    /\ importResult # NULL /\ ~importResult.success
    /\ selectedObject # NULL /\ clipboard # NULL
    /\ editingBlockId # 0 /\ undoStack # <<>>

\* The result of an import that failed with the message of parseLevel.
Failure(message) == [success |-> FALSE, error |-> "Error: " \o message]

\* C19: parseLevel fails with an error for a text without a line that is
\* '#' once its comments are stripped, and for a text whose object section
\* has no Block line at depth 0.
MalformedTextFails ==
    \A ls \in LineSeqs :
        /\ NoSeparator(ls) =>
              importLevel(St, TextOf(ls)).importResult =
                  Failure("Invalid level format: missing # separator")
        /\ NoRoot(ls) =>
              importLevel(St, TextOf(ls)).importResult =
                  Failure("Invalid level format: no root block found")

\* An import has failed for want of a root Block.
ImportFailedWithoutRoot ==
    importResult = Failure("Invalid level format: no root block found")

\* The line is put after a separator and the root Block line.
AfterRoot(line) == TextOf(<<SeparatorLine, RootLine, line>>)

\* C20: a Wall, Floor or Ref line at depth 0 makes the import fail.
OrphanLineFails ==
    \A line \in OrphanLines :
        ~importLevel(St, AfterRoot(line)).importResult.success

(***************************************************************************)
(* Properties of the handlers called from the tree panel, under SpecTree   *)
(***************************************************************************)
\* C18: no editing handler ends in an exception, deleteSelected with a
\* selected path of several indices that no longer resolves included.
NoHandlerThrows == ~threw

(***************************************************************************)
(* Properties of object lines and of inserts, under SpecImport             *)
(***************************************************************************)
\* Root Block lines and nested object lines with a numeric field that is
\* missing or is not a number.
MalformedRootLines == {<<"Block">>, <<"Block", " ", "x">>}
MalformedChildLines ==
    {<<"\t", "Wall", " ", "0">>, <<"\t", "Ref", " ", "0", " ", "0", " ", "x">>,
     <<"\t", "Block", " ", "1", " ", "1">>}

\* C21: an object line of a known variant with a numeric field that is
\* missing or is not a number makes the import fail.
MalformedFieldFails ==
    /\ \A line \in MalformedRootLines :
          ~importLevel(St, TextOf(<<SeparatorLine, line>>)).importResult.success
    /\ \A line \in MalformedChildLines :
          ~importLevel(St, AfterRoot(line)).importResult.success

\* C22: when the id of the Block being edited names no Block of the
\* document, an insert leaves the document as it is.
InsertRejectedWithoutParent ==
    findBlockById(level, editingBlockId) = NULL =>
        \A c \in Cells :
            /\ addObject(setTool(St, "wall"), c[1], c[2]).level = level
            /\ placeObjectAtPositionXY(St, c[1], c[2], "wall", TRUE).level
                   = level

(***************************************************************************)
(* Properties of validateLevel and of deletions, under SpecDoc             *)
(***************************************************************************)
\* The paths of the objects of the tree, as a set.
PathsIn(root) ==
    LET ps == ObjPaths(root, <<>>) IN {ps[i] : i \in DOMAIN ps}

BlocksIn(root) == {p \in PathsIn(root) : ObjAt(root, p).type = "Block"}

\* The Refs of the tree whose target id is the id of no Block.
OrphanRefs(root) ==
    {p \in PathsIn(root) :
        /\ ObjAt(root, p).type = "Ref"
        /\ \A b \in BlocksIn(root) : ObjAt(root, b).id # ObjAt(root, p).id}

\* The Blocks of the tree with fillwithwalls = 1 and a child.
FilledBoxes(root) ==
    {p \in BlocksIn(root) :
        /\ ObjAt(root, p).fillwithwalls = 1
        /\ ObjAt(root, p).children # <<>>}

HasPlayer(root) == \E b \in BlocksIn(root) : ObjAt(root, b).player = 1

HasPlayerButton(root) ==
    \E p \in PathsIn(root) :
        /\ ObjAt(root, p).type = "Floor"
        /\ ObjAt(root, p).floorType = <<"PlayerButton">>

\* How many of the warnings w have the wording message.
CountOf(w, message) ==
    Cardinality({i \in DOMAIN w : w[i].message = message})

\* The warnings w are those the document with this root calls for, and no
\* others.
WarningsFit(w, root) ==
    /\ CountOf(w, NoPlayerWarning.message) = IF HasPlayer(root) THEN 0 ELSE 1
    /\ CountOf(w, NoPlayerButtonWarning.message) =
           IF HasPlayerButton(root) THEN 0 ELSE 1
    /\ CountOf(w, "references non-existent Block") =
           Cardinality(OrphanRefs(root))
    /\ \A p \in OrphanRefs(root) :
           \E i \in DOMAIN w :
               /\ w[i].message = "references non-existent Block"
               /\ w[i].id = <<ObjAt(root, p).id>>
               /\ w[i].at = <<ObjAt(root, p).x, ObjAt(root, p).y>>
    /\ CountOf(w, "is a Box (fillwithwalls=1) but has children") =
           Cardinality(FilledBoxes(root))
    /\ Len(w) = (IF HasPlayer(root) THEN 0 ELSE 1)
                  + (IF HasPlayerButton(root) THEN 0 ELSE 1)
                  + Cardinality(OrphanRefs(root))
                  + Cardinality(FilledBoxes(root))

\* C24: validateLevel returns the no-player warning iff no Block has
\* player = 1, the no-PlayerButton warning iff no Floor is a PlayerButton,
\* one warning per Ref whose target is the id of no Block, one per Block
\* with fillwithwalls = 1 that has a child, and nothing else, for the
\* document and for the documents one erasure away from it; a document
\* that lacks only the player gets the no-player warning alone.
ValidationExact ==
    /\ WarningsFit(validateLevel(St), level.root)
    /\ \A c \in Cells :
          WarningsFit(validateLevel(deleteAtPositionXY(St, c[1], c[2], FALSE)),
                      deleteAtPositionXY(St, c[1], c[2], FALSE).level.root)
    /\ (/\ ~HasPlayer(level.root) /\ HasPlayerButton(level.root)
        /\ OrphanRefs(level.root) = {} /\ FilledBoxes(level.root) = {})
           => validateLevel(St) = <<NoPlayerWarning>>

\* The player Block has been deleted from a document that is otherwise in
\* order.
OnlyPlayerMissing ==
    /\ ~HasPlayer(level.root) /\ HasPlayerButton(level.root)
    /\ OrphanRefs(level.root) = {} /\ FilledBoxes(level.root) = {}
    /\ undoStack # <<>>

\* The objects of the tree in pre-order, each with its depth and without
\* its children.
Flat(root) ==
    LET ps == ObjPaths(root, <<>>)
    IN [i \in DOMAIN ps |->
           [depth |-> Len(ps[i]),
            object |-> IF ObjAt(root, ps[i]).type = "Block"
                       THEN [ObjAt(root, ps[i]) EXCEPT !.children = <<>>]
                       ELSE ObjAt(root, ps[i])]]

\* Flat(root) without the object at path p and what is below it.
FlatWithout(root, p) ==
    LET ps == ObjPaths(root, <<>>)
        kept == SelectSeq([i \in DOMAIN ps |-> i],
                          LAMBDA i : ~IsPrefix(p, ps[i]))
    IN [k \in DOMAIN kept |-> Flat(root)[kept[k]]]

\* The store t holds the document of the store St less the subtree at p,
\* and validateLevel warns once for each Ref left without its Block.
SubtreeGone(t, p) ==
    /\ Flat(t.level.root) = FlatWithout(level.root, p)
    /\ WarningsFit(validateLevel(t), t.level.root)

\* The paths of the Blocks among the children of the Block being edited.
ChildBlocks ==
    {p \in BlocksIn(level.root) :
        /\ Len(p) = Len(EditingPath(St)) + 1
        /\ IsPrefix(EditingPath(St), p)}

\* C23: deleting or cutting a Block removes the Block and its subtree and
\* nothing else, so every Ref elsewhere keeps its target id, and
\* validateLevel then warns once for each Ref whose target is the id of no
\* Block.
DeleteKeepsRefs ==
    /\ \A p \in ChildBlocks :
          (selectedPath # NoPath /\ selectedObject = Live(p)
              /\ p = EditingPath(St) \o selectedPath) =>
                  /\ SubtreeGone(deleteSelected(St), p)
                  /\ SubtreeGone(cutSelected(St), p)
    /\ \A c \in Cells :
          LET t == deleteAtPositionXY(St, c[1], c[2], TRUE)
          IN t.level # level =>
                 \E p \in PathsIn(level.root) :
                     /\ Len(p) = Len(EditingPath(St)) + 1
                     /\ IsPrefix(EditingPath(St), p)
                     /\ SubtreeGone(t, p)

\* A Block has been deleted and a Ref that targeted it is still in the
\* document.
RefLeftDangling ==
    /\ undoStack # <<>>
    /\ OrphanRefs(Last(undoStack).level.root) = {}
    /\ OrphanRefs(level.root) # {}
    /\ Cardinality(BlocksIn(level.root))
           < Cardinality(BlocksIn(Last(undoStack).level.root))

(***************************************************************************)
(* Properties of cut and copy on tree selections, under SpecTree           *)
(***************************************************************************)
\* C25: for a selection that resolves to the selected object, whatever the
\* length of its path, cutSelected leaves a deep copy of the object on the
\* clipboard and the document that copySelected and then deleteSelected
\* leave: the object is gone from it.
CutIsCopyThenDelete ==
    (/\ selectedPath # NoPath
     /\ selectedObject = Live(EditingPath(St) \o selectedPath)) =>
        /\ cutSelected(St).clipboard = JsonCloneObject(Deref(St))
        /\ cutSelected(St).clipboard = copySelected(St).clipboard
        /\ cutSelected(St).level = deleteSelected(copySelected(St)).level
        /\ CountObjects(cutSelected(St).level.root)
               < CountObjects(level.root)

(***************************************************************************)
(* Properties of copy, under SpecDoc                                       *)
(***************************************************************************)
\* The edits of what lies below the copied Block: the Block is entered and
\* an object is placed in it or erased from it.
EditsBelow(s, id) ==
    {placeObjectAtPositionXY(enterBlock(s, id), c[1], c[2], "wall", FALSE) :
        c \in Cells} \cup
    {deleteAtPositionXY(enterBlock(s, id), c[1], c[2], FALSE) : c \in Cells}

\* C26: copySelected changes nothing but the clipboard, which then holds a
\* copy of the selected object; no later edit of the object or of what is
\* below it changes the clipboard.
CopyIsolated ==
    selectedObject # NULL =>
        /\ [copySelected(St) EXCEPT !.clipboard = clipboard] = St
        /\ copySelected(St).clipboard = Deref(St)
        /\ \A u \in SilentEdits(copySelected(St)) :
               u.clipboard = Deref(St)
        /\ \A u \in RecordingEdits(copySelected(St)) :
               u.clipboard = Deref(St)
        /\ Deref(St).type = "Block" =>
               \A u \in EditsBelow(copySelected(St), Deref(St).id) :
                   u.clipboard = Deref(St)

\* The selected object was copied and has been edited since: the clipboard
\* holds the object as it was in the last snapshot.
CopiedThenEdited ==
    /\ clipboard # NULL /\ undoStack # <<>>
    /\ selectedPath # NoPath
    /\ selectedObject = Live(EditingPath(St) \o selectedPath)
    /\ ObjAt(Last(undoStack).level.root, selectedObject.path) = clipboard
    /\ Deref(St) # clipboard

(***************************************************************************)
(* Properties of getNextBlockId on parsed documents, under SpecImport      *)
(***************************************************************************)
\* next is 1 + the largest Block id of the tree, and the id of no Block of
\* the tree.
FreshId(next, root) ==
    /\ next \notin BlockIds(root)
    /\ \A id \in BlockIds(root) : id < next
    /\ \E id \in BlockIds(root) : next = id + 1

\* An insert of a Block into the store s gives the new Block the id
\* getNextBlockId returns for the document of s.
InsertedGetNextId(s) ==
    \A c \in Cells, type \in {"block", "box"} :
        LET t == placeObjectAtPositionXY(s, c[1], c[2], type, FALSE)
        IN t.level # s.level =>
               BlockIds(t.level.root) =
                   BlockIds(s.level.root) \cup {getNextBlockId(s.level)}

\* C27: getNextBlockId returns 1 + the largest id of the Blocks of the
\* document, at every depth, which is the id of no Block, and an inserted
\* Block gets this id: for the documents of the editor and for those that
\* parseLevel returns.
NextIdFresh ==
    /\ FreshId(getNextBlockId(level), level.root)
    /\ InsertedGetNextId(St)
    /\ \A line \in MalformedRootLines \cup {RootLine, RenumberedRootLine} :
          LET t == importLevel(St, TextOf(<<SeparatorLine, line>>))
          IN t.importResult.success =>
                 /\ FreshId(getNextBlockId(t.level), t.level.root)
                 /\ InsertedGetNextId(t)

(***************************************************************************)
(* Properties of the Refs of a pasted subtree, under SpecClip              *)
(***************************************************************************)
\* The store t is the store St after a paste into the Block being edited:
\* the rest of the document is as it was, and a Ref of the pasted subtree
\* has the target of the Ref it is a copy of, unless that target is a
\* Block of the copied subtree, whose pasted copy it then targets.
PastedInto(t) ==
    LET p == Append(EditingPath(St),
                    Len(getEditingBlock(St).children))
        pasted == ObjAt(t.level.root, p)
        rps == RefPaths(clipboard)
    IN /\ FlatWithout(t.level.root, p) = Flat(level.root)
       /\ RefPaths(pasted) = rps
       /\ \A r \in DOMAIN rps :
             IF ObjAt(clipboard, rps[r]).id \in BlockIds(clipboard)
             THEN ObjAt(pasted, rps[r]).id =
                      ObjAt(pasted,
                            PathOfBlock(clipboard,
                                        ObjAt(clipboard, rps[r]).id)).id
             ELSE ObjAt(pasted, rps[r]).id = ObjAt(clipboard, rps[r]).id

\* C28: paste rewrites only the Refs of the pasted subtree whose target is
\* a Block of that subtree; a pasted Ref with a target outside it keeps its
\* target, and no Ref and no Block id of the rest of the document changes.
PasteRemapsOnlyInner ==
    clipboard # NULL =>
        /\ paste(St).level # level => PastedInto(paste(St))
        /\ \A c \in Cells :
              pasteAtPositionXY(St, c[1], c[2], TRUE).level # level =>
                  PastedInto(pasteAtPositionXY(St, c[1], c[2], TRUE))

\* A Block that holds a Ref to a Block outside it has been pasted: two
\* Blocks of the document hold a copy of the Ref.
OuterRefPasted ==
    /\ undoStack # <<>>
    /\ \E p, q \in PathsIn(level.root) :
          /\ p # q /\ Len(p) = 2 /\ Len(q) = 2 /\ p[1] # q[1]
          /\ ObjAt(level.root, p).type = "Ref"
          /\ ObjAt(level.root, q).type = "Ref"
          /\ ObjAt(level.root, p).id = 0
          /\ ObjAt(level.root, q).id = 0

(***************************************************************************)
(* Properties of moves, under SpecDoc                                      *)
(***************************************************************************)
\* The store t is the store s but for the selected object, which is dx
\* further right and dy further down.
MovedOnly(s, t, dx, dy) ==
    /\ ObjAt(t.level.root, s.selectedObject.path) =
           [ObjAt(s.level.root, s.selectedObject.path) EXCEPT
               !.x = @ + dx, !.y = @ + dy]
    /\ ReplaceAt(t.level.root, s.selectedObject.path,
                 ObjAt(s.level.root, s.selectedObject.path)) = s.level.root
    /\ [t EXCEPT !.level = s.level, !.undoStack = s.undoStack,
                 !.redoStack = s.redoStack] = s

\* The selected object shares its cell with another child of its parent,
\* neither of them a Floor.
OnOccupiedCell(s) ==
    LET p == s.selectedObject.path
        parent == ObjAt(s.level.root, SubSeq(p, 1, Len(p) - 1))
        o == ObjAt(s.level.root, p)
    IN /\ o.type # "Floor"
       /\ \E i \in DOMAIN parent.children :
             /\ i - 1 # Last(p)
             /\ parent.children[i].type # "Floor"
             /\ parent.children[i].x = o.x /\ parent.children[i].y = o.y

\* The selected object lies outside the width and height of its parent.
OutsideParent(s) ==
    LET p == s.selectedObject.path
        parent == ObjAt(s.level.root, SubSeq(p, 1, Len(p) - 1))
        o == ObjAt(s.level.root, p)
    IN o.x < 0 \/ o.y < 0 \/ o.x >= parent.width \/ o.y >= parent.height

\* The selection is an object of the document, and no Block being edited
\* from the tree panel.
ObjectSelected(s) ==
    /\ s.selectedObject # NULL /\ s.selectedObject.ref = "live"
    /\ s.selectedObject.path # <<>>

\* C29: a move adds (dx, dy) to the x and y of the selected object and
\* changes nothing else: no other field, no child, no other object, no
\* order of children; it does so after an earlier move too, whether or not
\* the cell it leads to is occupied or outside the parent.
MoveTranslatesOnly ==
    ObjectSelected(St) =>
        \A m1 \in Moves \cup {<<0, 0>>}, m2 \in Moves :
            /\ MovedOnly(moveSelected(St, m1[1], m1[2]),
                         moveSelected(moveSelected(St, m1[1], m1[2]),
                                      m2[1], m2[2]),
                         m2[1], m2[2])
            /\ MovedOnly(moveSelected(St, m1[1], m1[2]),
                         moveSelectedWithHistory(
                             moveSelected(St, m1[1], m1[2]), m2[1], m2[2]),
                         m2[1], m2[2])

\* A recorded move has been made: the selected object is that of the
\* last snapshot but for its position.  One more move takes it onto an
\* occupied cell, another takes it out of its parent.
MovedNextToOccupied ==
    /\ undoStack # <<>> /\ ObjectSelected(St)
    /\ ObjAt(Last(undoStack).level.root, selectedObject.path) # Deref(St)
    /\ [ObjAt(Last(undoStack).level.root, selectedObject.path) EXCEPT
           !.x = Deref(St).x, !.y = Deref(St).y] = Deref(St)
    /\ \E m \in Moves : OnOccupiedCell(moveSelected(St, m[1], m[2]))
    /\ \E m \in Moves : OutsideParent(moveSelected(St, m[1], m[2]))

(***************************************************************************)
(* Properties of the lines of serializeLevel, under SpecClip               *)
(***************************************************************************)
\* The headers the documents are serialized with.
HeadersTried ==
    [version : {4}, comment : {<<>>, <<<<"a", " ", "b">>>>},
     shed : {<<>>, <<TRUE>>, <<FALSE>>}, innerPush : {<<>>, <<TRUE>>},
     drawStyle : {<<>>}, attemptOrder : {<<>>, <<<<"push,enter">>>>},
     customLevelMusic : {<<>>, <<0>>}, customLevelPalette : {<<>>, <<1>>}]

\* The first symbols of the header lines, in their fixed order.
HeaderOrder ==
    <<"version", "(", "shed", "inner_push", "attempt_order",
      "custom_level_music", "custom_level_palette">>

\* The first symbols of the header lines the header h calls for.
LinesCalledFor(h) ==
    {"version"} \cup
    (IF h.comment # <<>> THEN {"("} ELSE {}) \cup
    (IF h.shed = <<TRUE>> THEN {"shed"} ELSE {}) \cup
    (IF h.innerPush = <<TRUE>> THEN {"inner_push"} ELSE {}) \cup
    (IF h.attemptOrder # <<>> THEN {"attempt_order"} ELSE {}) \cup
    (IF h.customLevelMusic # <<>> THEN {"custom_level_music"} ELSE {}) \cup
    (IF h.customLevelPalette # <<>> THEN {"custom_level_palette"} ELSE {})

\* lines are the lines of a document with header h and tree root: the
\* header lines called for, in the fixed order; one line '#'; one line per
\* object in pre-order, indented by one tab per level below the root.
LinesInOrder(lines, h, root) ==
    LET seps == {k \in DOMAIN lines : lines[k] = <<"#">>}
        sep == CHOOSE k \in seps : TRUE
        ps == ObjPaths(root, <<>>)
    IN /\ Cardinality(seps) = 1
       /\ [k \in 1 .. (sep - 1) |-> Head(lines[k])] =
              SelectSeq(HeaderOrder, LAMBDA key : key \in LinesCalledFor(h))
       /\ lines[1] = <<"version", " ">> \o NumberToString(h.version)
       /\ Len(lines) = sep + Len(ps)
       /\ \A i \in DOMAIN ps :
             lines[sep + i] =
                 [j \in 1 .. Len(ps[i]) |-> "\t"] \o
                     serializeObject(ObjAt(root, ps[i]))

\* C30: serializeLevel emits the version line, the title comment line if
\* there is one, shed and inner_push if true, attempt_order,
\* custom_level_music and custom_level_palette if set, one '#' line, and
\* then one line per object in pre-order, each with as many tabs as the
\* object is deep below the root.
SerializedInOrder ==
    \A h \in HeadersTried :
        LinesInOrder(Split(serializeLevel([header |-> h, root |-> level.root]),
                           "\n"),
                     h, level.root)

\* A Block has been pasted into a Block of the root: the document holds an
\* object three levels below the root.
DeepDocument ==
    /\ undoStack # <<>>
    /\ \E p \in PathsIn(level.root) : Len(p) = 3

(***************************************************************************)
(* The serialized text as a fixed point, under SpecCodec                   *)
(***************************************************************************)
\* Level names typed into the name field: one with a space, one with a
\* closing parenthesis.
LevelNames == {<<"a", " ", "b">>, <<"a", ")">>}

\* serializeLevel(parseLevel(t)); the empty text when parseLevel throws.
Reserialized(t) ==
    LET parsed == parseLevel(t)
    IN IF parsed.ok THEN serializeLevel(parsed.level) ELSE <<>>

\* C31: every text serializeLevel produces is a fixed point of parsing and
\* serializing again, for the current document and for the document under
\* each level name.
SerializedTextFixedPoint ==
    /\ Reserialized(exportLevel(St)) = exportLevel(St)
    /\ \A name \in LevelNames :
          LET t == exportLevel(updateHeader(St, [comment |-> <<name>>]))
          IN Reserialized(t) = t

(***************************************************************************)
(* Properties of the tree parseLevel builds, under SpecNest                *)
(***************************************************************************)
\* The Blocks that are open after the last line of the text of root: the
\* ancestors of the last object in pre-order, and that object if it is a
\* Block; each as its path, the root first.
OpenBlocks(root) ==
    LET p == Last(ObjPaths(root, <<>>))
        n == Len(p) + (IF ObjAt(root, p).type = "Block" THEN 1 ELSE 0)
    IN [k \in 1 .. n |-> SubSeq(p, 1, k - 1)]

\* root with obj as the last child of the open Block a line of the given
\* depth belongs to: the one at that depth, or the deepest one.
Attached(root, depth, obj) ==
    LET open == OpenBlocks(root)
        bp == open[IF depth < Len(open) THEN depth ELSE Len(open)]
    IN ReplaceAt(root, bp,
                 [ObjAt(root, bp) EXCEPT !.children = Append(@, obj)])

\* C32: an object line at depth d >= 1 becomes the last child of the open
\* Block at depth d, the Blocks opened deeper being closed; a line deeper
\* than the open Blocks goes into the deepest open Block and the parse
\* does not fail; a line after an object that is no Block goes into an
\* open Block, never under that object.
LineGoesToOpenBlock ==
    \A a \in NestedLines :
        /\ parseLevel(WithLine(exportLevel(St), a)).ok
        /\ parseLevel(WithLine(exportLevel(St), a)).level.root =
               Attached(level.root, a.depth, a.obj)

\* A text has been imported whose last line is a Wall, with two Blocks
\* open and a third one closed before it: a line one level deeper is
\* deeper than the open Blocks.
LineAfterWallImported ==
    /\ importResult # NULL /\ importResult.success
    /\ Len(OpenBlocks(level.root)) = 2
    /\ ObjAt(level.root, Last(ObjPaths(level.root, <<>>))).type = "Wall"
    /\ \E p \in PathsIn(level.root) :
          /\ Len(p) = 2
          /\ ObjAt(level.root, p).type = "Block"
          /\ ObjAt(level.root, p).children # <<>>

(***************************************************************************)
(* Edits without effect, under Spec                                        *)
(***************************************************************************)
\* The stores one call of an insert, delete, cut or paste handler leads to
\* from s.
EditOutcomes(s) ==
    {addObject(s, c[1], c[2]) : c \in Cells} \cup
    {createObjectAtPosition(s, type) : type \in ObjectTypes} \cup
    {placeObjectAtSelection(s, type) : type \in ObjectTypes} \cup
    {placeObjectAtPositionXY(s, c[1], c[2], "wall", TRUE) : c \in Cells} \cup
    {deleteAtPositionXY(s, c[1], c[2], TRUE) : c \in Cells} \cup
    {pasteAtPositionXY(s, c[1], c[2], TRUE) : c \in Cells} \cup
    {deleteSelected(s), cutSelected(s), paste(s)}

\* C33: an insert, delete, cut or paste that leaves the document as it
\* was leaves the undo stack and the redo stack as they were.
UnchangedDocumentRecordsNothing ==
    \A t \in EditOutcomes(St) :
        t.level = level =>
            t.undoStack = undoStack /\ t.redoStack = redoStack

(***************************************************************************)
(* The selection and the document, under SpecTree                          *)
(***************************************************************************)
\* C34: when selectedPath and selectedObject are both set, selectedObject
\* is the object of the current document that selectedPath leads to from
\* the Block being edited.
SelectionResolves ==
    (selectedPath # NoPath /\ selectedObject # NULL) =>
        selectedObject = Live(EditingPath(St) \o selectedPath)

(***************************************************************************)
(* The Block being edited, under Spec                                      *)
(***************************************************************************)
\* The store s edits a Block of its document.
EditsPresentBlock(s) ==
    \E p \in BlocksIn(s.level.root) :
        ObjAt(s.level.root, p).id = s.editingBlockId

\* C35: in every state reached from the default document by entering and
\* leaving Blocks, inserts, deletions, cuts, pastes, undo and redo,
\* editingBlockId is the id of a Block of the document; so it is after
\* newLevel, and after undo and redo that follow newLevel.
EditingBlockPresent ==
    /\ EditsPresentBlock(St)
    /\ EditsPresentBlock(newLevel(St))
    /\ EditsPresentBlock(undo(newLevel(St)))
    /\ EditsPresentBlock(redo(undo(newLevel(St))))

\* An undo has brought the editor back into a Block other than the root.
UndoneIntoEnteredBlock ==
    /\ editingBlockId # 0
    /\ redoStack # <<>>
    /\ redoStack[1].editingBlockId # editingBlockId

(***************************************************************************)
(* Block ids after a deletion, under SpecClip                              *)
(***************************************************************************)
\* The stores a deletion is made in: s, and s after an erasure by drag
\* in one of its Blocks, the editor back in the Block it was editing.
Prepared(s) ==
    {s} \cup
    {enterBlock(deleteAtPositionXY(enterBlock(s, b), c[1], c[2], FALSE),
                s.editingBlockId) :
        b \in BlockIdInputs, c \in Cells}

\* The indices of the children of the Block s edits that are Blocks.
BlockChildren(s) ==
    {i \in DOMAIN getEditingBlock(s).children :
        getEditingBlock(s).children[i].type = "Block"}

\* s after its i-th child is selected and deleted.
ChildDeleted(s, i) == deleteSelected(selectObject(s, <<i - 1>>))

\* The stores in which a Block has been inserted or pasted at the cell the
\* deletion left selected.
BlockInserts(s) ==
    {t \in {placeObjectAtSelection(s, "block"),
            placeObjectAtSelection(s, "box"),
            IF s.clipboard # NULL /\ s.clipboard.type = "Block"
            THEN paste(s) ELSE s} :
        t.level # s.level}

\* validateLevel reports a Ref whose target is id.
Reported(s, id) ==
    \E k \in DOMAIN validateLevel(s) :
        /\ validateLevel(s)[k].message = "references non-existent Block"
        /\ validateLevel(s)[k].id = <<id>>

\* The ids of the Blocks of the document of s.
IdsIn(s) == {ObjAt(s.level.root, p).id : p \in BlocksIn(s.level.root)}

\* d is the id that follows the ids of s.
FollowsIds(d, s) == (d - 1) \in IdsIn(s) /\ \A b \in IdsIn(s) : b < d

\* The Block inserted last into the Block t edits.
InsertedBlock(t) == Last(getEditingBlock(t).children)

\* The deletion of the Block with id d led to del, the insert after it to
\* t: the new Block has the id that follows the ids left; and when d is
\* that id, a Ref to d that del reports is not reported in t.
ReusedWhenNext(d, del, t) ==
    /\ FollowsIds(InsertedBlock(t).id, del)
    /\ FollowsIds(d, del) =>
          /\ InsertedBlock(t).id = d
          /\ ~Reported(t, d)
    /\ ~FollowsIds(d, del) => InsertedBlock(t).id # d

\* C36 as amended: after a Block is deleted, the next Block inserted or
\* pasted gets 1 + the largest id left in the document.  That is the id of
\* the deleted Block exactly when the largest id left is one less; a Ref to
\* the deleted Block then resolves to the new Block and validateLevel no
\* longer reports it.
DeletedIdReusedWhenNext ==
    \A s \in Prepared(St) :
        \A i \in BlockChildren(s) :
            \A t \in BlockInserts(ChildDeleted(s, i)) :
                ReusedWhenNext(getEditingBlock(s).children[i].id,
                               ChildDeleted(s, i), t)

\* C36 as stated: after the Block with the largest id is deleted, the next
\* Block inserted or pasted gets the id of the deleted Block.
LargestIdReused ==
    \A s \in Prepared(St) :
        \A i \in BlockChildren(s) :
            (\A b \in IdsIn(s) : b <= getEditingBlock(s).children[i].id) =>
                \A t \in BlockInserts(ChildDeleted(s, i)) :
                    InsertedBlock(t).id = getEditingBlock(s).children[i].id

\* The Block with the largest id has been deleted, and a Ref to it is left
\* in the document: validateLevel reports the Ref, and stops reporting it
\* once a Block is inserted.
DanglingRefResolved ==
    /\ undoStack # <<>>
    /\ \E d \in IdsIn(Last(undoStack)) :
          /\ FollowsIds(d, St)
          /\ Reported(St, d)
          /\ BlockInserts(St) # {}
          /\ \A t \in BlockInserts(St) : ~Reported(t, d)

(***************************************************************************)
(* Cut and paste of a Block, under SpecClip                                *)
(***************************************************************************)
\* The stores a Block is cut in: s, and s after a Ref of its document was
\* selected in the tree panel and given another target.
Retargeted(s) ==
    {s} \cup
    {enterBlock(
         updateSelectedProperty(selectObject(enterBlock(s, 0), p), "id", v),
         s.editingBlockId) :
        p \in {q \in PathsIn(s.level.root) :
                  ObjAt(s.level.root, q).type = "Ref"},
        v \in BlockIdInputs}

\* s after its i-th child is selected and cut.
ChildCut(s, i) == cutSelected(selectObject(s, <<i - 1>>))

\* The stores in which the clipboard of s has been pasted: at the cell the
\* cut left selected, at a cell of the Block being edited, or at the
\* origin of another Block.
Pastes(s) ==
    {t \in {paste(s)} \cup
           {pasteAtPositionXY(s, c[1], c[2], TRUE) : c \in Cells} \cup
           {paste(enterBlock(s, b)) : b \in BlockIdInputs} :
        t.level # s.level}

\* The Block with id d was cut, which led to cut, and pasted, which led to
\* t: if cut has a Block with an id of d or more, no Block of the pasted
\* subtree has id d, and every Ref with target d that cut has is at its
\* place in t with target d.
PastedIdDiffers(d, cut, t) ==
    (\E b \in IdsIn(cut) : b >= d) =>
        /\ InsertedBlock(t).id # d
        /\ \A p \in BlocksIn(InsertedBlock(t)) :
              ObjAt(InsertedBlock(t), p).id # d
        /\ \A p \in PathsIn(cut.level.root) :
              (/\ ObjAt(cut.level.root, p).type = "Ref"
               /\ ObjAt(cut.level.root, p).id = d) =>
                  ObjAt(t.level.root, p) = ObjAt(cut.level.root, p)

KeepsSnapshots(s, t) ==
    /\ \/ t.undoStack = s.undoStack
       \/ /\ t.undoStack # <<>>
          /\ Last(t.undoStack).level = JsonCloneLevel(s.level)
          /\ SubSeq(t.undoStack, 1, Len(t.undoStack) - 1) =
                 IF Len(s.undoStack) = HistoryLimit
                 THEN Tail(s.undoStack) ELSE s.undoStack
    /\ t.redoStack = s.redoStack \/ t.redoStack = <<>>

\* C38: no edit of the live document changes a snapshot held in the undo
\* stack or in the redo stack, also when the live document is one that
\* undo or redo restored; a snapshot pushed by an edit holds the document
\* as it was before the edit.
SnapshotsUntouched ==
    \A t \in RecordingEdits(St) \cup SilentEdits(St) :
        KeepsSnapshots(St, t)

\* An undo has restored a snapshot, both stacks hold snapshots, and the
\* restored document can be edited with and without a record.
RestoredDocumentEditable ==
    /\ undoStack # <<>> /\ redoStack # <<>>
    /\ level = undo(redo(St)).level
    /\ \E t \in SilentEdits(St) : t.level # level
    /\ \E t \in RecordingEdits(St) : t.level # level
====